---------------------------- MODULE Spec2Model ----------------------------
(***************************************************************************)
(* A model of the whisper-api-server audio ingestion core: the path and    *)
(* file validators, the audio sources, the temporary file manager, the     *)
(* four-stage audio pipeline, the transcription service and the thread     *)
(* based asynchronous task manager.                                        *)
(*                                                                         *)
(* Text (paths, file names) is a sequence of one-character strings, so     *)
(* that prefix and suffix tests are the tests the Python code performs.    *)
(***************************************************************************)
EXTENDS Integers, Sequences, FiniteSets, TLC

(***************************************************************************)
(* Bounds of the model.                                                    *)
(***************************************************************************)
MaxPathLen == 4
MaxTime == 1
MaxFiles == 2

None == "None"
\* None in a field that otherwise holds a time
NoTime == -1

(***************************************************************************)
(* Text helpers.                                                           *)
(***************************************************************************)
Sep == "/"
Dot == <<".">>
DotDot == <<".", ".">>

\* str.startswith
StartsWith(s, p) == Len(p) <= Len(s) /\ SubSeq(s, 1, Len(p)) = p

\* str.endswith
EndsWith(s, p) == Len(p) <= Len(s) /\ SubSeq(s, Len(s) - Len(p) + 1, Len(s)) = p

RECURSIVE SplitAcc(_, _, _)
SplitAcc(s, cur, acc) ==
    IF s = <<>> THEN Append(acc, cur)
    ELSE IF Head(s) = Sep THEN SplitAcc(Tail(s), <<>>, Append(acc, cur))
    ELSE SplitAcc(Tail(s), Append(cur, Head(s)), acc)

\* str.split('/')
Split(s) == SplitAcc(s, <<>>, <<>>)

RECURSIVE JoinSep(_)
\* '/'.join(comps)
JoinSep(comps) ==
    IF comps = <<>> THEN <<>>
    ELSE IF Len(comps) = 1 THEN comps[1]
    ELSE comps[1] \o <<Sep>> \o JoinSep(Tail(comps))

RECURSIVE NormFold(_, _, _)
\* the component loop of posixpath.normpath
NormFold(comps, new, initial_slashes) ==
    IF comps = <<>> THEN new
    ELSE LET comp == Head(comps) IN
         IF comp = <<>> \/ comp = Dot
         THEN NormFold(Tail(comps), new, initial_slashes)
         ELSE IF comp # DotDot
                 \/ (initial_slashes = 0 /\ new = <<>>)
                 \/ (new # <<>> /\ new[Len(new)] = DotDot)
         THEN NormFold(Tail(comps), Append(new, comp), initial_slashes)
         ELSE IF new # <<>>
         THEN NormFold(Tail(comps), SubSeq(new, 1, Len(new) - 1), initial_slashes)
         ELSE NormFold(Tail(comps), new, initial_slashes)

\* the number of leading slashes posixpath.normpath keeps: 0, 1 or 2
InitialSlashes(path) ==
    IF ~StartsWith(path, <<Sep>>) THEN 0
    ELSE IF StartsWith(path, <<Sep, Sep>>) /\ ~StartsWith(path, <<Sep, Sep, Sep>>) THEN 2
    ELSE 1

\* os.path.normpath
normpath(path) ==
    IF path = <<>> THEN Dot
    ELSE LET init == InitialSlashes(path)
             body == JoinSep(NormFold(Split(path), <<>>, init))
             full == (IF init = 2 THEN <<Sep, Sep>> ELSE IF init = 1 THEN <<Sep>> ELSE <<>>) \o body
         IN IF full = <<>> THEN Dot ELSE full

\* os.path.join(a, b)
join(a, b) ==
    IF StartsWith(b, <<Sep>>) THEN b
    ELSE IF a = <<>> \/ EndsWith(a, <<Sep>>) THEN a \o b
    ELSE a \o <<Sep>> \o b

\* os.path.abspath, in the working directory cwd
abspath(path, cwd) ==
    IF StartsWith(path, <<Sep>>) THEN normpath(path) ELSE normpath(join(cwd, path))


(***************************************************************************)
(* validators.py: FileValidator.validate_local_file_path                   *)
(***************************************************************************)
\* Python truthiness of the allowed_directories argument (None and [] are false)
Truthy(allowed_directories) == allowed_directories # None /\ allowed_directories # <<>>

RECURSIVE FirstAllowed(_, _, _)
\* the loop over allowed_directories: the first directory whose absolute
\* path is a string prefix of the joined absolute path decides
FirstAllowed(normalized_path, dirs, cwd) ==
    IF dirs = <<>> THEN [ok |-> FALSE, path |-> <<>>]
    ELSE LET full_allowed_path == abspath(Head(dirs), cwd)
             full_file_path == abspath(join(full_allowed_path, normalized_path), cwd)
         IN IF StartsWith(full_file_path, full_allowed_path)
            THEN [ok |-> TRUE, path |-> full_file_path]
            ELSE FirstAllowed(normalized_path, Tail(dirs), cwd)

\* ok = FALSE stands for ValidationError being raised
validate_local_file_path(file_path, allowed_directories, cwd) ==
    IF Truthy(allowed_directories)
    THEN FirstAllowed(normpath(file_path), allowed_directories, cwd)
    ELSE [ok |-> TRUE, path |-> normpath(file_path)]

(***************************************************************************)
(* Inputs of the path check.                                               *)
(***************************************************************************)
PathAlphabet == {Sep, ".", "a", "b"}

RECURSIVE TextsUpTo(_, _)
TextsUpTo(alphabet, n) ==
    IF n = 0 THEN {<<>>}
    ELSE LET shorter == TextsUpTo(alphabet, n - 1)
         IN shorter \cup {Append(t, c) : t \in shorter, c \in alphabet}

EtcPasswd == <<".", ".", "/", ".", ".", "/", "e", "t", "c", "/", "p", "a", "s", "s", "w", "d">>
ClipWav == <<"c", "l", "i", "p", ".", "w", "a", "v">>
DataDir == <<"/", "d", "a", "t", "a">>
Data2X == <<"/", "d", "a", "t", "a", "2", "/", "x">>
UpData2X == <<".", ".", "/", "d", "a", "t", "a", "2", "/", "x">>

FilePaths == TextsUpTo(PathAlphabet, MaxPathLen) \cup {EtcPasswd, ClipWav, Data2X, UpData2X}

\* values of config["allowed_directories"]; None: the key holds null
AllowedLists ==
    { None, <<>>, <<DataDir>>, <<<<"/", "a">>>>, <<<<"/", "a">>, <<"/", "b">>>>,
      <<<<"/", "a", "/">>>>, <<<<"/", "a", "/", "b">>>>, <<<<"a">>>>, <<<<"/">>>> }

Cwds == { <<"/">>, <<"/", "b">> }

\* the path components of an absolute path
Comps(path) == SelectSeq(Split(path), LAMBDA c : c # <<>>)

\* root is path or a directory above it, component by component
IsAncestor(root, path) == StartsWith(Comps(path), Comps(root))

(***************************************************************************)
(* validators.py: FileValidator.validate_file                              *)
(*                                                                         *)
(* A stream is [kind, len, pos]: kind "upload" is the framework's uploaded *)
(* file, whose read takes a byte count; kind "fake" is audio_sources.py's  *)
(* FakeFile, whose read() takes no argument.                               *)
(***************************************************************************)
max_file_size_mb == 100
MaxSizeBytes == max_file_size_mb * 1024 * 1024
SniffLen == 1024

ExtWav == <<".", "w", "a", "v">>
ExtMp3 == <<".", "m", "p", "3">>
ExtOgg == <<".", "o", "g", "g">>
ExtFlac == <<".", "f", "l", "a", "c">>
ExtM4a == <<".", "m", "4", "a">>
allowed_extensions == <<ExtWav, ExtMp3, ExtOgg, ExtFlac, ExtM4a>>
allowed_mime_types == {"audio/wav", "audio/mpeg", "audio/ogg", "audio/flac", "audio/mp4"}

\* str.lower on one character
LowerChar(c) ==
    CASE c = "A" -> "a" [] c = "W" -> "w" [] c = "V" -> "v" [] c = "M" -> "m"
      [] c = "P" -> "p" [] c = "T" -> "t" [] c = "X" -> "x" [] OTHER -> c

\* str.lower
Lower(s) == [i \in 1..Len(s) |-> LowerChar(s[i])]

\* _validate_file_size: the position is saved and restored around the seek
\* to the end; error "size" stands for the ValidationError raised
validate_file_size(file) ==
    LET current_position == file.pos
        file_length == file.len
    IN [file |-> [file EXCEPT !.pos = current_position],
        error |-> IF file_length > MaxSizeBytes THEN "size" ELSE None]

\* _validate_file_extension
validate_file_extension(filename) ==
    IF \E i \in 1..Len(allowed_extensions) :
           EndsWith(Lower(filename), Lower(allowed_extensions[i]))
    THEN None ELSE "extension"

\* file.read(1024): an uploaded stream advances by at most 1024 bytes; on a
\* FakeFile the call raises TypeError and the stream is untouched
ReadHeader(file) ==
    IF file.kind = "fake"
    THEN [file |-> file, raised |-> "TypeError"]
    ELSE [file |-> [file EXCEPT !.pos = IF file.pos + SniffLen < file.len
                                        THEN file.pos + SniffLen ELSE file.len],
          raised |-> None]

\* a _validate_file_mime_type whose handler leaves the stream where the
\* read stopped
validate_file_mime_type_no_seek(file, sniff) ==
    LET header == ReadHeader(file)
        in_try == IF header.raised # None THEN header.raised
                  ELSE IF sniff = "raise" THEN "MagicException"
                  ELSE IF sniff \notin allowed_mime_types THEN "ValidationError"
                  ELSE None
    IN [file |-> IF in_try \in {None, "ValidationError"}
                 THEN [header.file EXCEPT !.pos = file.pos] ELSE header.file,
        error |-> None,
        swallowed |-> in_try]

\* _validate_file_mime_type: sniff is what magic.from_buffer answers for
\* the header ("raise": it raises).  The ValidationError of lines 144-145
\* is raised inside the try and is caught by "except Exception" at line
\* 146 like every other exception: the handler seeks back and the method
\* returns normally.  swallowed names the exception the handler caught.
validate_file_mime_type(file, sniff) ==
    LET current_position == file.pos
        header == ReadHeader(file)
        in_try == IF header.raised # None THEN header.raised
                  ELSE IF sniff = "raise" THEN "MagicException"
                  ELSE IF sniff \notin allowed_mime_types THEN "ValidationError"
                  ELSE None
    IN [file |-> [header.file EXCEPT !.pos = current_position],
        error |-> None,
        swallowed |-> in_try]

\* a validate_file that looks at the extension before the size
validate_file_extension_first(file, filename, sniff) ==
    LET ext == validate_file_extension(filename)
        size == validate_file_size(file)
        mime == validate_file_mime_type(size.file, sniff)
    IN IF ext # None
       THEN [ok |-> FALSE, error |-> ext, file |-> file, ran |-> <<"extension">>]
       ELSE IF size.error # None
       THEN [ok |-> FALSE, error |-> size.error, file |-> size.file,
             ran |-> <<"extension", "size">>]
       ELSE [ok |-> mime.error = None, error |-> mime.error, file |-> mime.file,
             ran |-> <<"extension", "size", "mime">>]

\* validate_file: size, extension, MIME type, stopping at the first error;
\* ran lists the checks that were called, in the order of the calls
validate_file(file, filename, sniff) ==
    LET size == validate_file_size(file)
        ext == validate_file_extension(filename)
        mime == validate_file_mime_type(size.file, sniff)
    IN IF size.error # None
       THEN [ok |-> FALSE, error |-> size.error, file |-> size.file, ran |-> <<"size">>]
       ELSE IF ext # None
       THEN [ok |-> FALSE, error |-> ext, file |-> size.file,
             ran |-> <<"size", "extension">>]
       ELSE IF mime.error # None
       THEN [ok |-> FALSE, error |-> mime.error, file |-> mime.file,
             ran |-> <<"size", "extension", "mime">>]
       ELSE [ok |-> TRUE, error |-> None, file |-> mime.file,
             ran |-> <<"size", "extension", "mime">>]

\* inputs of validate_file
FileLens == {0, 512, 2048, MaxSizeBytes, MaxSizeBytes + 1}
FileStreams ==
    {[kind |-> k, len |-> n, pos |-> p] :
        k \in {"upload", "fake"}, n \in FileLens, p \in {0, 512, 2048}}
FileNames ==
    { <<"a">> \o ExtWav, <<"A", ".", "W", "A", "V">>, <<"a", ".", "t", "x", "t">>,
      <<"w", "a", "v">>, <<"a">> \o ExtWav \o <<".", "t", "x", "t">>, ExtMp3 }
Sniffs == {"audio/wav", "audio/mpeg", "text/plain", "application/octet-stream", "raise"}

(***************************************************************************)
(* The temp root.  tempfile.mkdtemp() makes a directory with a fresh name: *)
(* the k-th directory made for request r is named <<r, k>>.  A path is      *)
(* [dir, name]: name is the file's name in the directory, and <<>> for the  *)
(* directory itself.  The disk is the set of paths that exist.  uuid4()     *)
(* names are written "u": a directory holds at most one such file.          *)
(***************************************************************************)
NoPath == [dir |-> <<0, 0>>, name |-> <<>>]
DirPath(d) == [dir |-> d, name |-> <<>>]
FilePath(d, name) == [dir |-> d, name |-> name]
mkdtemp(r, k) == <<r, k>>
Uuid == <<"u">>
dirname(path) == DirPath(path.dir)
basename(path) == path.name
exists(disk, path) == path # NoPath /\ path \in disk
listdir(disk, dir_path) == {q \in disk : q.dir = dir_path.dir /\ q.name # <<>>}

(***************************************************************************)
(* audio_sources.py.  A source is described by what the request and the    *)
(* outside world hand to it:                                               *)
(*   kind      "upload", "url", "base64", "local"                          *)
(*   has_part  upload: 'file' is in request.files                          *)
(*   filename  upload: file.filename; local: the path's basename           *)
(*   len       the content's length in bytes                               *)
(*   pos       upload: the stream's position when the request arrives      *)
(*   clen      url: the Content-Length header (NoHeader: absent)           *)
(*   fault     what goes wrong on the way: "none"; "get" (requests.get or  *)
(*             raise_for_status raises); "decode" (b64decode raises);      *)
(*             "write" (writing the scratch file raises after open created *)
(*             it); "open" (opening for reading raises); "missing" (the    *)
(*             local path does not exist)                                  *)
(***************************************************************************)
NoHeader == -1
NoStream == [kind |-> None, len |-> 0, pos |-> 0]

\* AudioSource.check_file_size: the stream is left at position 0
check_file_size(file) ==
    LET file_length == file.len
    IN [file |-> [file EXCEPT !.pos = 0],
        is_valid |-> ~(file_length > max_file_size_mb * 1024 * 1024),
        error |-> IF file_length > max_file_size_mb * 1024 * 1024 THEN "size" ELSE None]

\* what a get_audio_file call leaves behind: the triple it returns, the disk,
\* and the source's temp_dir and temp_file_path attributes
SourceResult(file, filename, error, disk, temp_dir, temp_file_path) ==
    [file |-> file, filename |-> filename, error |-> error, disk |-> disk,
     temp_dir |-> temp_dir, temp_file_path |-> temp_file_path]

\* a cleanup that removes the scratch file and leaves its directory
source_cleanup_keeps_dir(disk, temp_dir, temp_file_path) ==
    IF exists(disk, temp_file_path) THEN disk \ {temp_file_path} ELSE disk

\* URLSource.cleanup and Base64Source.cleanup
source_cleanup(disk, temp_dir, temp_file_path) ==
    LET d1 == IF exists(disk, temp_file_path) THEN disk \ {temp_file_path} ELSE disk
    IN IF exists(d1, temp_dir) THEN d1 \ {temp_dir} ELSE d1

\* UploadedFileSource.get_audio_file
upload_get_audio_file(src, disk) ==
    IF ~src.has_part THEN SourceResult(NoStream, <<>>, "no_part", disk, NoPath, NoPath)
    ELSE IF src.filename = <<>> THEN SourceResult(NoStream, <<>>, "no_name", disk, NoPath, NoPath)
    ELSE LET chk == check_file_size([kind |-> "upload", len |-> src.len, pos |-> src.pos])
         IN IF ~chk.is_valid
            THEN SourceResult(NoStream, <<>>, chk.error, disk, NoPath, NoPath)
            ELSE SourceResult(chk.file, src.filename, None, disk, NoPath, NoPath)

\* the part of URLSource.get_audio_file and Base64Source.get_audio_file from
\* mkdtemp on (lines 184-197, 244-256); d is the name mkdtemp picks
scratch_and_open(src, disk, d, error_tag) ==
    LET temp_dir == DirPath(d)
        temp_file_path == FilePath(d, Uuid \o ExtWav)
        made == disk \cup {temp_dir, temp_file_path}
    IN IF src.fault \in {"write", "open"}
       THEN SourceResult(NoStream, <<>>, error_tag,
                         source_cleanup(made, temp_dir, temp_file_path),
                         temp_dir, temp_file_path)
       ELSE SourceResult([kind |-> "fake", len |-> src.len, pos |-> 0],
                         basename(temp_file_path), None, made, temp_dir, temp_file_path)

\* URLSource.get_audio_file: the size is checked only against the header,
\* and only when the response carries one
url_get_audio_file(src, disk, d) ==
    IF src.fault = "get"
    THEN SourceResult(NoStream, <<>>, "retrieve", source_cleanup(disk, NoPath, NoPath), NoPath, NoPath)
    ELSE IF src.clen # NoHeader /\ src.clen > max_file_size_mb * 1024 * 1024
    THEN SourceResult(NoStream, <<>>, "size", disk, NoPath, NoPath)
    ELSE scratch_and_open(src, disk, d, "retrieve")

\* Base64Source.get_audio_file
base64_get_audio_file(src, disk, d) ==
    IF src.fault = "decode"
    THEN SourceResult(NoStream, <<>>, "decode", source_cleanup(disk, NoPath, NoPath), NoPath, NoPath)
    ELSE IF src.len > max_file_size_mb * 1024 * 1024
    THEN SourceResult(NoStream, <<>>, "size", disk, NoPath, NoPath)
    ELSE scratch_and_open(src, disk, d, "decode")

\* LocalFileSource.get_audio_file
local_get_audio_file(src, disk) ==
    IF src.fault = "missing" THEN SourceResult(NoStream, <<>>, "not_found", disk, NoPath, NoPath)
    ELSE IF src.len > max_file_size_mb * 1024 * 1024
    THEN SourceResult(NoStream, <<>>, "size", disk, NoPath, NoPath)
    ELSE IF src.fault = "open" THEN SourceResult(NoStream, <<>>, "open", disk, NoPath, NoPath)
    ELSE SourceResult([kind |-> "fake", len |-> src.len, pos |-> 0], src.filename, None,
                      disk, NoPath, NoPath)

get_audio_file(src, disk, d) ==
    CASE src.kind = "upload" -> upload_get_audio_file(src, disk)
      [] src.kind = "url" -> url_get_audio_file(src, disk, d)
      [] src.kind = "base64" -> base64_get_audio_file(src, disk, d)
      [] src.kind = "local" -> local_get_audio_file(src, disk)

\* the state of the handle behind the file object get_audio_file returned:
\* the URL, base64 and local sources wrap the result of open(path, 'rb')
\* (lines 192, 251, 302) in a FakeFile; an upload is the request's own stream
handle_after_open(file) == IF file.kind = "fake" THEN "open" ELSE "none"

\* a service for which no source has a cleanup
has_cleanup_never(src) == FALSE

\* hasattr(source, 'cleanup')
has_cleanup(src) ==
    src.kind \in {"url", "base64"}

\* inputs of get_audio_file
SrcLens == {0, 2048, MaxSizeBytes, MaxSizeBytes + 1}
AWav == <<"a">> \o ExtWav
Source(kind, has_part, filename, n, pos, clen, fault) ==
    [kind |-> kind, has_part |-> has_part, filename |-> filename, len |-> n,
     pos |-> pos, clen |-> clen, fault |-> fault]
Sources ==
    {Source("upload", hp, fn, n, ps, NoHeader, "none") :
        hp \in BOOLEAN, fn \in {<<>>, AWav}, n \in SrcLens, ps \in {0, 2048}}
    \cup {Source("url", TRUE, <<>>, n, 0, cl, f) :
        n \in SrcLens, cl \in SrcLens \cup {NoHeader}, f \in {"none", "get", "write", "open"}}
    \cup {Source("base64", TRUE, <<>>, n, 0, NoHeader, f) :
        n \in SrcLens, f \in {"none", "decode", "write", "open"}}
    \cup {Source("local", TRUE, AWav, n, 0, NoHeader, f) :
        n \in SrcLens, f \in {"none", "missing", "open"}}

(***************************************************************************)
(* file_manager.py: TempFileManager.  tm is [disk, temp_files, temp_dirs]: *)
(* the disk and the manager's two tracking lists.                          *)
(***************************************************************************)
\* list.remove(x), guarded by "x in list"
RemoveFirst(s, x) ==
    IF \E i \in 1..Len(s) : s[i] = x
    THEN LET i == CHOOSE k \in 1..Len(s) : s[k] = x /\ \A j \in 1..(k - 1) : s[j] # x
         IN SubSeq(s, 1, i - 1) \o SubSeq(s, i + 1, Len(s))
    ELSE s

RECURSIVE RemoveEach(_, _)
RemoveEach(s, xs) ==
    IF xs = <<>> THEN s ELSE RemoveEach(RemoveFirst(s, Head(xs)), Tail(xs))

\* create_temp_file: only the directory is made; d is the name mkdtemp picks
create_temp_file(tm, d, suffix) ==
    LET temp_dir == DirPath(d)
        temp_file == FilePath(d, Uuid \o suffix)
    IN [tm |-> [disk |-> tm.disk \cup {temp_dir},
                temp_files |-> Append(tm.temp_files, temp_file),
                temp_dirs |-> Append(tm.temp_dirs, temp_dir)],
        temp_file |-> temp_file, temp_dir |-> temp_dir]

\* what the operating system refuses: os.remove raises for the files in
\* remove, os.rmdir raises for the directories in rmdir
NoFaults == [remove |-> {}, rmdir |-> {}]

\* the body of the loop of cleanup_temp_files (lines 58-73): a path that is
\* not on disk is skipped, and its directory with it.  An exception from
\* os.remove or os.rmdir is caught at line 72: what was done before it
\* stays done, the rest of the body is skipped.
CleanPathFaulty(tm, path, faults) ==
    IF exists(tm.disk, path)
    THEN IF path \in faults.remove
         THEN [tm |-> tm, caught |-> TRUE]
         ELSE LET removed == tm.disk \ {path}
                  temp_dir == dirname(path)
              IN IF exists(removed, temp_dir) /\ listdir(removed, temp_dir) = {}
                 THEN IF temp_dir \in faults.rmdir
                      THEN [tm |-> [tm EXCEPT !.disk = removed], caught |-> TRUE]
                      ELSE [tm |-> [tm EXCEPT !.disk = removed \ {temp_dir},
                                              !.temp_dirs = RemoveFirst(tm.temp_dirs, temp_dir)],
                            caught |-> FALSE]
                 ELSE [tm |-> [tm EXCEPT !.disk = removed], caught |-> FALSE]
    ELSE [tm |-> tm, caught |-> FALSE]

\* a loop whose try encloses the for: the first exception ends it and
\* reaches the caller
RECURSIVE CleanLoopStops(_, _, _)
CleanLoopStops(st, paths, faults) ==
    IF paths = <<>> THEN st
    ELSE LET one == CleanPathFaulty(st.tm, Head(paths), faults)
             nxt == [tm |-> one.tm, visited |-> Append(st.visited, Head(paths)),
                     caught |-> IF one.caught THEN Append(st.caught, Head(paths)) ELSE st.caught,
                     raised |-> one.caught]
         IN IF one.caught THEN nxt ELSE CleanLoopStops(nxt, Tail(paths), faults)

\* the for loop of lines 57-73: the try is inside the loop, every path is
\* visited and nothing is raised.  st is [tm, visited, caught, raised].
RECURSIVE CleanLoop(_, _, _)
CleanLoop(st, paths, faults) ==
    IF paths = <<>> THEN st
    ELSE LET one == CleanPathFaulty(st.tm, Head(paths), faults)
         IN CleanLoop([tm |-> one.tm, visited |-> Append(st.visited, Head(paths)),
                       caught |-> IF one.caught THEN Append(st.caught, Head(paths))
                                  ELSE st.caught,
                       raised |-> st.raised],
                      Tail(paths), faults)

StartLoop(tm) == [tm |-> tm, visited |-> <<>>, caught |-> <<>>, raised |-> FALSE]

\* a cleanup_temp_files that takes every tracked file whatever it is asked
cleanup_temp_files_ignores_list(tm, file_paths, faults) ==
    LET looped == CleanLoop(StartLoop(tm), tm.temp_files, faults)
    IN [looped EXCEPT !.tm.temp_files = <<>>]

\* cleanup_temp_files(file_paths) with a list: the listed paths leave
\* temp_files (lines 79-81) whether or not they were removed
cleanup_temp_files_faulty(tm, file_paths, faults) ==
    LET looped == CleanLoop(StartLoop(tm), file_paths, faults)
    IN IF looped.raised THEN looped
       ELSE [looped EXCEPT !.tm.temp_files = RemoveEach(looped.tm.temp_files, file_paths)]

\* cleanup_temp_files() with file_paths None: the loop runs over temp_files
\* itself, which is then cleared (line 77)
cleanup_temp_files_tracked(tm, faults) ==
    LET looped == CleanLoop(StartLoop(tm), tm.temp_files, faults)
    IN IF looped.raised THEN looped
       ELSE [looped EXCEPT !.tm.temp_files = <<>>]

\* the loop of cleanup_all (lines 105-111) over temp_dirs
RECURSIVE DirLoop(_, _, _)
DirLoop(st, dirs, faults) ==
    IF dirs = <<>> THEN st
    ELSE LET temp_dir == Head(dirs)
             empty == exists(st.tm.disk, temp_dir) /\ listdir(st.tm.disk, temp_dir) = {}
             fails == empty /\ temp_dir \in faults.rmdir
         IN DirLoop([tm |-> IF empty /\ ~fails
                            THEN [st.tm EXCEPT !.disk = st.tm.disk \ {temp_dir}]
                            ELSE st.tm,
                     visited |-> Append(st.visited, temp_dir),
                     caught |-> IF fails THEN Append(st.caught, temp_dir) ELSE st.caught,
                     raised |-> st.raised],
                    Tail(dirs), faults)

\* cleanup_all: the tracked files, then the tracked directories that are
\* empty, then temp_dirs is cleared (line 112)
cleanup_all(tm, faults) ==
    LET files == cleanup_temp_files_tracked(tm, faults)
        dirs == DirLoop(files, files.tm.temp_dirs, faults)
    IN IF files.raised THEN files
       ELSE [dirs EXCEPT !.tm.temp_dirs = <<>>]

\* the same without faults
CleanPath(tm, path) == CleanPathFaulty(tm, path, NoFaults).tm

RECURSIVE CleanPaths(_, _)
CleanPaths(tm, paths) ==
    IF paths = <<>> THEN tm ELSE CleanPaths(CleanPath(tm, Head(paths)), Tail(paths))

\* a cleanup that forgets the paths and removes nothing
cleanup_temp_files_untracks_only(tm, file_paths) ==
    [tm EXCEPT !.temp_files = RemoveEach(tm.temp_files, file_paths)]

\* cleanup_temp_files(file_paths) when no removal is refused
cleanup_temp_files(tm, file_paths) ==
    cleanup_temp_files_faulty(tm, file_paths, NoFaults).tm

(***************************************************************************)
(* audio_processor.py: the four stages.  Each makes its output path with   *)
(* create_temp_file and then waits for an external program, whose outcome  *)
(* is "ok" (output written), "fail" (it raises, nothing written) or        *)
(* "fail_partial" (it raises after writing some output).  A stage operator *)
(* is the stage up to its external call and answers [tm, path, made]: made *)
(* says whether mkdtemp was called and the program is to be run on path;   *)
(* otherwise path is what the stage returns.                               *)
(***************************************************************************)
SuffixNormalized == <<"_", "n", "o", "r", "m", "a", "l", "i", "z", "e", "d">> \o ExtWav
SuffixSpeedup == <<"_", "s", "p", "e", "e", "d", "u", "p">> \o ExtWav
SuffixSilence == <<"_", "s", "i", "l", "e", "n", "c", "e">> \o ExtWav
StageOutcomes == {"ok", "fail", "fail_partial"}
CallOutcomes == {"ok", "fail"}
SoxiOutcomes == {"rate_matches", "rate_differs", "CalledProcessError"}

\* output_path, _ = temp_file_manager.create_temp_file(suffix)
MakeOutput(tm, d, suffix) ==
    LET c == create_temp_file(tm, d, suffix)
    IN [tm |-> c.tm, path |-> c.temp_file, made |-> TRUE]

\* subprocess.run(cmd, check=True, capture_output=True) of a program that
\* writes output_path: what it leaves and whether CalledProcessError is
\* raised
subprocess_run(tm, output_path, outcome) ==
    [tm |-> IF outcome = "fail" THEN tm
            ELSE [tm EXCEPT !.disk = tm.disk \cup {output_path}],
     raised |-> outcome # "ok"]

\* a convert_to_wav that always writes a new file
convert_to_wav_always(tm, input_path, d, soxi) ==
    MakeOutput(tm, d, ExtWav)

\* convert_to_wav, lines 52-68: a .wav input that soxi reports at
\* audio_rate is returned as it is
convert_to_wav(tm, input_path, d, soxi) ==
    IF EndsWith(Lower(input_path.name), ExtWav) /\ soxi = "rate_matches"
    THEN [tm |-> tm, path |-> input_path, made |-> FALSE]
    ELSE MakeOutput(tm, d, ExtWav)

\* normalize_audio, line 105
normalize_audio(tm, input_path, d) == MakeOutput(tm, d, SuffixNormalized)

\* speed_up_audio, lines 140-145: factor 1.0 returns the input
speed_up_audio(tm, input_path, d, audio_speed_factor) ==
    IF audio_speed_factor = "1.0"
    THEN [tm |-> tm, path |-> input_path, made |-> FALSE]
    ELSE MakeOutput(tm, d, SuffixSpeedup)

\* add_silence, line 181
add_silence(tm, input_path, d) == MakeOutput(tm, d, SuffixSilence)

VARIABLES
    localReq,       \* the last /local/transcriptions request and what it did
    vcall,          \* the last validate_file call and what it did
    scall,          \* the last get_audio_file call and what it did
    disk,           \* the paths that exist under the temp root
    temp_files,     \* temp_file_manager.temp_files
    temp_dirs,      \* temp_file_manager.temp_dirs
    return_timestamps,  \* transcriber.return_timestamps, shared by all requests
    config,         \* the configuration the service was started with
    rq,             \* per request thread: position in transcribe_from_source and its locals
    fm,             \* direct use of temp_file_manager: files made, and the last cleanup call
    tasks,          \* AsyncTaskManager.tasks: task id -> task record
    detached,       \* records deleted from tasks that a handler still holds a reference to
    nextTask,       \* the number of task ids handed out (uuid4 values are fresh)
    wpc,            \* per task: the worker thread's position in _run_task_thread
    wval,           \* per task: what func returned or raised in that thread
    now,            \* time.time()
    poll,           \* the /v1/tasks/<task_id> handler: position, reference, response
    sweep,          \* cleanup_completed_tasks: position and locals
    cache,          \* SimpleCache.cache: key -> value and timestamp
    ttl,            \* SimpleCache.ttl
    ccall,          \* the last SimpleCache call and what it returned
    written         \* per key: the last set that no delete or clear followed

pathVars == <<localReq>>
valVars == <<vcall>>
srcVars == <<scall>>
svcVars == <<disk, temp_files, temp_dirs, return_timestamps, config, rq>>
fmVars == <<fm>>
taskVars == <<tasks, detached, nextTask, wpc, wval, now, poll, sweep>>
cacheVars == <<cache, ttl, ccall, written>>
vars == <<localReq, vcall, scall, disk, temp_files, temp_dirs, return_timestamps, config, rq, fm, tasks, detached, nextTask, wpc, wval, now, poll, sweep, cache, ttl, ccall, written>>
notPathVars == <<valVars, srcVars, svcVars, fmVars, taskVars, cacheVars>>
notValVars == <<pathVars, srcVars, svcVars, fmVars, taskVars, cacheVars>>
notSrcVars == <<pathVars, valVars, svcVars, fmVars, taskVars, cacheVars>>
notTaskVars == <<pathVars, valVars, srcVars, svcVars, fmVars, cacheVars>>
notSvcVars == <<pathVars, valVars, srcVars, fmVars, taskVars, cacheVars>>
notFmVars == <<pathVars, valVars, srcVars, taskVars, return_timestamps, config, rq, cacheVars>>
notCacheVars == <<pathVars, valVars, srcVars, svcVars, fmVars, taskVars>>

NoValidateCall ==
    [called |-> FALSE, file |-> [kind |-> "upload", len |-> 0, pos |-> 0],
     filename |-> <<>>, sniff |-> None, ok |-> FALSE, error |-> None, pos |-> 0,
     ran |-> <<>>]

ValidateInit == vcall = NoValidateCall

ValidateFile ==
    /\ ~vcall.called
    /\ \E file \in FileStreams, filename \in FileNames, sniff \in Sniffs :
         /\ file.pos <= file.len
         /\ LET res == validate_file(file, filename, sniff)
            IN vcall' = [called |-> TRUE, file |-> file, filename |-> filename,
                         sniff |-> sniff, ok |-> res.ok, error |-> res.error,
                         pos |-> res.file.pos, ran |-> res.ran]
    /\ UNCHANGED notValVars

(***************************************************************************)
(* transcriber_service.py: transcribe_from_source, one request per thread  *)
(* of the server's pool.  Each action is one step of the handler; a step   *)
(* that raises carries the exception through the handlers and finally      *)
(* blocks it passes, up to the next write of the shared flag.  The steps   *)
(* that meet the outside world take the set of things it may do.           *)
(***************************************************************************)
Procs == {1, 2}
SpeedFactors == {"1.0", "1.25"}

\* the requests the routes hand to the service
ServiceSources ==
    { Source("upload", TRUE, AWav, 2048, 0, NoHeader, "none"),
      Source("upload", TRUE, <<"a", ".", "t", "x", "t">>, 2048, 0, NoHeader, "none"),
      Source("upload", FALSE, <<>>, 0, 0, NoHeader, "none"),
      Source("url", TRUE, <<>>, 2048, 0, 2048, "none"),
      Source("url", TRUE, <<>>, MaxSizeBytes + 1, 0, NoHeader, "none"),
      Source("url", TRUE, <<>>, 2048, 0, NoHeader, "get"),
      Source("base64", TRUE, <<>>, 2048, 0, NoHeader, "none"),
      Source("base64", TRUE, <<>>, 65536, 0, NoHeader, "none"),
      Source("upload", TRUE, AWav, 65536, 0, NoHeader, "none"),
      Source("base64", TRUE, <<>>, 2048, 0, NoHeader, "decode"),
      Source("local", TRUE, AWav, 2048, 0, NoHeader, "none"),
      Source("local", TRUE, AWav, 2048, 0, NoHeader, "missing") }

\* routes.py passes the validator for uploads, URLs and base64 data (lines
\* 135, 161, 181) and none for local paths (line 98)
has_validator(src) == src.kind # "local"

\* the return_timestamps entry of the request's params: absent, a JSON
\* boolean, or a string (form fields are always strings)
Param(kind, flag, text) == [kind |-> kind, flag |-> flag, text |-> text]
NoParam == Param("absent", FALSE, <<>>)
ServiceParams ==
    { NoParam, Param("bool", TRUE, <<>>), Param("bool", FALSE, <<>>),
      Param("str", FALSE, <<"T">>), Param("str", FALSE, <<"0">>) }
RaceParams == { Param("bool", TRUE, <<>>), Param("bool", FALSE, <<>>) }

\* line 91: the strings that stand for true
TrueStrings == { <<"t", "r", "u", "e">>, <<"t">>, <<"y", "e", "s">>, <<"y">>, <<"1">> }

\* lines 87-91: the request's parameter, else the configured default; a
\* string is converted by its lower-cased text
effective_return_timestamps(param, default) ==
    CASE param.kind = "absent" -> default
      [] param.kind = "bool" -> param.flag
      [] param.kind = "str" -> Lower(param.text) \in TrueStrings

response_keys_without_segments(with_segments) ==
    {"text", "processing_time", "response_size_bytes", "duration_seconds", "model"}

\* lines 120-137: the keys of the response dictionary
response_keys(with_segments) ==
    IF with_segments
    THEN {"segments", "text", "processing_time", "response_size_bytes",
          "duration_seconds", "model"}
    ELSE {"text", "processing_time", "response_size_bytes", "duration_seconds",
          "model"}

NoRequest ==
    [pc |-> "idle", src |-> Source("upload", FALSE, <<>>, 0, 0, NoHeader, "none"),
     want |-> FALSE, file |-> NoStream, filename |-> <<>>, original |-> FALSE,
     staged |-> NoPath, temp_dir |-> NoPath, temp_file_path |-> NoPath, ndirs |-> 0,
     pf_files |-> <<>>, cur |-> NoPath, pf |-> "none", pf_before |-> {},
     used |-> FALSE, result |-> "none", code |-> 0, shape |-> "none",
     handle |-> "none", rate_matches |-> FALSE, calls |-> <<>>,
     out |-> NoPath, reads |-> FALSE,
     param |-> NoParam, body |-> {}]

ServiceInit ==
    /\ disk = {}
    /\ temp_files = <<>>
    /\ temp_dirs = <<>>
    /\ config \in [return_timestamps : BOOLEAN, audio_speed_factor : SpeedFactors]
    /\ return_timestamps = config.return_timestamps
    /\ rq = [r \in Procs |-> NoRequest]

Tm == [disk |-> disk, temp_files |-> temp_files, temp_dirs |-> temp_dirs]
SetTm(tm) ==
    /\ disk' = tm.disk
    /\ temp_files' = tm.temp_files
    /\ temp_dirs' = tm.temp_dirs

\* the paths of the temp root that request r's directories hold
Own(r, d) == {q \in d : q.dir[1] = r}

\* lines 61-70: get_audio_file and the 400 answers
Fetch(r, sources, params) ==
    /\ rq[r].pc = "idle"
    /\ \E src \in sources, param \in params :
         LET res == get_audio_file(src, disk, mkdtemp(r, 1))
             got == [rq[r] EXCEPT !.src = src, !.param = param, !.file = res.file,
                                  !.filename = res.filename, !.temp_dir = res.temp_dir,
                                  !.temp_file_path = res.temp_file_path,
                                  !.ndirs = IF res.temp_dir # NoPath THEN 1 ELSE 0,
                                  !.handle = handle_after_open(res.file)]
         IN /\ disk' = res.disk
            /\ rq' = [rq EXCEPT ![r] =
                 IF res.error # None \/ res.file = NoStream
                 THEN [got EXCEPT !.pc = "done", !.code = 400, !.shape = "error"]
                 ELSE [got EXCEPT !.pc = IF has_validator(src) THEN "validate"
                                         ELSE "save_original"]]
    /\ UNCHANGED <<temp_files, temp_dirs, return_timestamps, config, notSvcVars>>

\* lines 73-79: a ValidationError is answered with 400 at once
Validate(r) ==
    /\ rq[r].pc = "validate"
    /\ \E sniff \in Sniffs :
         LET res == validate_file(rq[r].file, rq[r].filename, sniff)
         IN rq' = [rq EXCEPT ![r] =
              IF res.ok
              THEN [@ EXCEPT !.pc = "save_original", !.file = res.file]
              ELSE [@ EXCEPT !.pc = "done", !.file = res.file, !.code = 400,
                             !.shape = "error"]]
    /\ UNCHANGED <<disk, temp_files, temp_dirs, return_timestamps, config, notSvcVars>>

\* line 94
SaveOriginal(r) ==
    /\ rq[r].pc = "save_original"
    /\ rq' = [rq EXCEPT ![r].original = return_timestamps, ![r].pc = "override"]
    /\ UNCHANGED <<disk, temp_files, temp_dirs, return_timestamps, config, notSvcVars>>

\* lines 87-91 and 95
Override(r) ==
    /\ rq[r].pc = "override"
    /\ LET want == effective_return_timestamps(rq[r].param, config.return_timestamps)
       IN /\ return_timestamps' = want
          /\ rq' = [rq EXCEPT ![r].pc = "enter_temp", ![r].want = want]
    /\ UNCHANGED <<disk, temp_files, temp_dirs, config, notSvcVars>>

\* line 99: entering temp_file_manager.temp_file()
EnterTemp(r) ==
    /\ rq[r].pc = "enter_temp"
    /\ LET c == create_temp_file(Tm, mkdtemp(r, rq[r].ndirs + 1), ExtWav)
       IN /\ SetTm(c.tm)
          /\ rq' = [rq EXCEPT ![r].staged = c.temp_file, ![r].ndirs = @ + 1,
                              ![r].pc = "save"]
    /\ UNCHANGED <<return_timestamps, config, notSvcVars>>

\* the block in which an upload is copied to its destination
CopyBlock == 16384

\* where the stream is left when save raises after the destination was
\* created.  FakeFile.save (audio_sources.py lines 102-105) reads the stream
\* to its end, writes and then seeks to 0.  The destination is a buffered
\* file: when f.write itself raises, seek(0) is not run and the stream stays
\* at its end; when f.write only fills the buffer (all of a short content, or
\* the rest of a long one after a short write), seek(0) runs and the error
\* is raised when the with block closes the file.  Which of the two happens
\* depends on the buffer size and on where the device stops, so both are
\* outcomes.  An upload is copied block by block and stops after the block
\* whose write failed, or at its end when the close fails.
save_failed_positions(file) ==
    IF file.kind = "fake"
    THEN {0, file.len}
    ELSE LET left == file.len - file.pos
         IN {IF k * CopyBlock < left THEN file.pos + k * CopyBlock ELSE file.len :
                k \in 1..((left \div CopyBlock) + 1)}

\* line 100: file.save(temp_file_path).  "fail": it raises before the
\* destination exists (open fails, nothing was read); "fail_partial": it
\* raises after the destination was created.  The exception leaves the with
\* block and the function: line 152 is not run.  When the copy succeeds an
\* uploaded stream is left at its end and FakeFile.save has sought back to 0.
Save(r, outcomes) ==
    /\ rq[r].pc = "save"
    /\ \E outcome \in outcomes :
         /\ disk' = IF outcome = "fail" THEN disk ELSE disk \cup {rq[r].staged}
         /\ \E pos \in (IF outcome = "fail_partial" THEN save_failed_positions(rq[r].file)
                         ELSE {rq[r].file.pos}) :
              rq' = [rq EXCEPT ![r] =
                   IF outcome = "ok"
                   THEN [@ EXCEPT !.pc = "probe",
                                  !.file.pos = IF rq[r].file.kind = "fake" THEN 0
                                               ELSE rq[r].file.len]
                   ELSE [@ EXCEPT !.pc = "exit_temp", !.code = 500, !.shape = "exception",
                                  !.file.pos = pos]]
    /\ UNCHANGED <<temp_files, temp_dirs, return_timestamps, config, notSvcVars>>

\* lines 103-107: the duration probe; on failure the 500 is returned from
\* inside the with block, before lines 110-112 and outside the try whose
\* finally restores the flag
Probe(r, outcomes) ==
    /\ rq[r].pc = "probe"
    /\ \E outcome \in outcomes :
         rq' = [rq EXCEPT ![r] =
              IF outcome = "ok" THEN [@ EXCEPT !.pc = "source_cleanup"]
              ELSE [@ EXCEPT !.pc = "exit_temp", !.code = 500, !.shape = "error"]]
    /\ UNCHANGED <<disk, temp_files, temp_dirs, return_timestamps, config, notSvcVars>>

\* lines 110-116: source.cleanup() when the source has one, then the call of
\* process_file, which remembers what the temp root held for this request
SourceCleanup(r) ==
    /\ rq[r].pc = "source_cleanup"
    /\ LET d1 == IF has_cleanup(rq[r].src)
                 THEN source_cleanup(disk, rq[r].temp_dir, rq[r].temp_file_path)
                 ELSE disk
       IN /\ disk' = d1
          /\ rq' = [rq EXCEPT ![r].pc = "convert", ![r].pf = "running",
                              ![r].pf_before = Own(r, d1), ![r].cur = rq[r].staged,
                              ![r].handle = IF has_cleanup(rq[r].src) THEN "closed"
                                            ELSE rq[r].handle]
    /\ UNCHANGED <<temp_files, temp_dirs, return_timestamps, config, notSvcVars>>

\* one call made by process_file: the stage, the path it was given, the path
\* it returned, whether it raised
Called(stage, input, output, raised) ==
    [stage |-> stage, input |-> input, output |-> output, raised |-> raised]

\* a pipeline that goes from convert_to_wav straight to speed_up_audio
NextStageSkipsNormalize(stage) ==
    CASE stage = "convert" -> "speed_up"
      [] stage = "normalize" -> "speed_up"
      [] stage = "speed_up" -> "add_silence"
      [] stage = "add_silence" -> "infer"

\* the order of the calls in process_audio (lines 218, 223, 227, 232) and of
\* transcribe after it (transcriber.py line 266)
NextStage(stage) ==
    CASE stage = "convert" -> "normalize"
      [] stage = "normalize" -> "speed_up"
      [] stage = "speed_up" -> "add_silence"
      [] stage = "add_silence" -> "infer"

\* a stage of process_audio raised: lines 237-240 clean the outputs gathered
\* so far, process_file's finally (line 280) cleans its own list, which is
\* still empty, and the service's except (lines 144-148) answers 500
StageRaisedWith(r, tm, rate_matches) ==
    /\ SetTm(cleanup_temp_files(cleanup_temp_files(tm, rq[r].pf_files), <<>>))
    /\ rq' = [rq EXCEPT ![r].pc = "restore", ![r].pf = "raised", ![r].code = 500,
                        ![r].shape = "error", ![r].rate_matches = rate_matches,
                        ![r].out = NoPath, ![r].reads = FALSE,
                        ![r].calls = Append(@, Called(rq[r].pc, rq[r].cur, NoPath, TRUE))]

StageRaised(r, tm) == StageRaisedWith(r, tm, rq[r].rate_matches)

\* a process_audio that puts every path a stage returns in its list
StageReturnedAlwaysListed(r, st, next_pc, rate_matches) ==
    /\ SetTm(st.tm)
    /\ rq' = [rq EXCEPT ![r].pc = next_pc, ![r].cur = st.path,
                        ![r].pf_files = Append(@, st.path),
                        ![r].rate_matches = rate_matches,
                        ![r].out = NoPath, ![r].reads = FALSE,
                        ![r].calls = Append(@, Called(rq[r].pc, rq[r].cur, st.path, FALSE))]

\* a stage of process_audio returned st.path: lines 219-233
StageReturnedWith(r, st, next_pc, rate_matches) ==
    /\ SetTm(st.tm)
    /\ rq' = [rq EXCEPT ![r].pc = next_pc, ![r].cur = st.path,
                        ![r].pf_files = IF st.path # rq[r].cur THEN Append(@, st.path) ELSE @,
                        ![r].rate_matches = rate_matches,
                        ![r].out = NoPath, ![r].reads = FALSE,
                        ![r].calls = Append(@, Called(rq[r].pc, rq[r].cur, st.path, FALSE))]

StageReturned(r, st, next_pc) == StageReturnedWith(r, st, next_pc, rq[r].rate_matches)

\* a stage has made its output path and starts its external program, which
\* opens its input as it starts: the thread waits in subprocess.run, the new
\* directory is on disk and tracked, the output file is not written yet
StageWaits(r, st, rate_matches) ==
    /\ SetTm(st.tm)
    /\ rq' = [rq EXCEPT ![r].out = st.path, ![r].ndirs = @ + 1,
                        ![r].rate_matches = rate_matches,
                        ![r].reads = exists(disk, rq[r].cur)]

\* the stage either returns its input at once or waits for its program
StageStarted(r, st, stage, rate_matches) ==
    IF st.made THEN StageWaits(r, st, rate_matches)
    ELSE StageReturnedWith(r, st, NextStage(stage), rate_matches)

\* the external program of a stage has ended: subprocess.run returns and the
\* stage returns output_path, or it raises CalledProcessError, which the
\* stage raises again
StageRan(r, stage, outcomes) ==
    /\ \E outcome \in outcomes :
         LET run == subprocess_run(Tm, rq[r].out, outcome)
         IN IF run.raised THEN StageRaised(r, run.tm)
            ELSE StageReturned(r, [tm |-> run.tm, path |-> rq[r].out, made |-> TRUE],
                               NextStage(stage))
    /\ UNCHANGED <<return_timestamps, config, notSvcVars>>

\* line 218, convert_to_wav up to its external call: soxi (line 59) and
\* create_temp_file (line 68); whether soxi reported the configured rate
\* (line 61) is kept with the request
Convert(r) ==
    /\ rq[r].pc = "convert"
    /\ rq[r].out = NoPath
    /\ \E soxi \in SoxiOutcomes :
         StageStarted(r, convert_to_wav(Tm, rq[r].cur, mkdtemp(r, rq[r].ndirs + 1), soxi),
                      "convert", soxi = "rate_matches")
    /\ UNCHANGED <<return_timestamps, config, notSvcVars>>

\* convert_to_wav lines 83-89: ffmpeg has ended
ConvertRan(r, outcomes) ==
    /\ rq[r].pc = "convert"
    /\ rq[r].out # NoPath
    /\ StageRan(r, "convert", outcomes)

\* line 223, normalize_audio up to its external call (line 105)
Normalize(r) ==
    /\ rq[r].pc = "normalize"
    /\ rq[r].out = NoPath
    /\ StageStarted(r, normalize_audio(Tm, rq[r].cur, mkdtemp(r, rq[r].ndirs + 1)),
                    "normalize", rq[r].rate_matches)
    /\ UNCHANGED <<return_timestamps, config, notSvcVars>>

\* normalize_audio lines 118-124: sox has ended
NormalizeRan(r, outcomes) ==
    /\ rq[r].pc = "normalize"
    /\ rq[r].out # NoPath
    /\ StageRan(r, "normalize", outcomes)

\* line 227, speed_up_audio up to its external call (lines 140-145)
SpeedUp(r) ==
    /\ rq[r].pc = "speed_up"
    /\ rq[r].out = NoPath
    /\ StageStarted(r, speed_up_audio(Tm, rq[r].cur, mkdtemp(r, rq[r].ndirs + 1),
                                      config.audio_speed_factor),
                    "speed_up", rq[r].rate_matches)
    /\ UNCHANGED <<return_timestamps, config, notSvcVars>>

\* speed_up_audio lines 159-165: ffmpeg has ended
SpeedUpRan(r, outcomes) ==
    /\ rq[r].pc = "speed_up"
    /\ rq[r].out # NoPath
    /\ StageRan(r, "speed_up", outcomes)

\* line 232, add_silence up to its external call (line 181)
AddSilence(r) ==
    /\ rq[r].pc = "add_silence"
    /\ rq[r].out = NoPath
    /\ StageStarted(r, add_silence(Tm, rq[r].cur, mkdtemp(r, rq[r].ndirs + 1)),
                    "add_silence", rq[r].rate_matches)
    /\ UNCHANGED <<return_timestamps, config, notSvcVars>>

\* add_silence lines 193-199: sox has ended
AddSilenceRan(r, outcomes) ==
    /\ rq[r].pc = "add_silence"
    /\ rq[r].out # NoPath
    /\ StageRan(r, "add_silence", outcomes)

\* transcriber.py lines 178-189: the recogniser is called with the shared
\* flag as it is when the call starts.  A call that returns is recorded
\* here; one that is going to raise is then under way, and its exception,
\* its record and the cleanup come in InferRaised
Infer(r, outcomes) ==
    /\ rq[r].pc = "infer"
    /\ \E outcome \in outcomes :
         rq' = [rq EXCEPT ![r] =
             IF outcome = "ok"
             THEN [@ EXCEPT !.pc = "format", !.used = return_timestamps,
                            !.calls = Append(@, Called("infer", rq[r].cur, NoPath, FALSE))]
             ELSE [@ EXCEPT !.pc = "infer_raised", !.used = return_timestamps]]
    /\ UNCHANGED <<disk, temp_files, temp_dirs, return_timestamps, config, notSvcVars>>

\* the call has raised (transcribe re-raises at lines 236-240):
\* process_file's finally cleans the pipeline's outputs (lines 271-280) and
\* the service answers 500 (transcriber_service.py lines 144-148)
InferRaised(r) ==
    /\ rq[r].pc = "infer_raised"
    /\ SetTm(cleanup_temp_files(Tm, rq[r].pf_files))
    /\ rq' = [rq EXCEPT ![r].pc = "restore", ![r].pf = "raised",
                        ![r].code = 500, ![r].shape = "error",
                        ![r].calls = Append(@, Called("infer", rq[r].cur, NoPath, TRUE))]
    /\ UNCHANGED <<return_timestamps, config, notSvcVars>>

\* transcriber.py lines 192-234: the shared flag is read again to choose
\* between the text and the segment dictionary; process_file returns it
\* through its finally (line 280)
Format(r) ==
    /\ rq[r].pc = "format"
    /\ SetTm(cleanup_temp_files(Tm, rq[r].pf_files))
    /\ rq' = [rq EXCEPT ![r].pc = "respond", ![r].pf = "returned",
                        ![r].result = IF ~return_timestamps THEN "str" ELSE "dict"]
    /\ UNCHANGED <<return_timestamps, config, notSvcVars>>

\* lines 119-148: the response is shaped by the request's own preference;
\* result.get on a string raises AttributeError, answered with 500
Respond(r) ==
    /\ rq[r].pc = "respond"
    /\ rq' = [rq EXCEPT ![r] =
         IF rq[r].want
         THEN IF rq[r].result = "dict"
              THEN [@ EXCEPT !.pc = "restore", !.code = 200, !.shape = "segments",
                             !.body = response_keys(TRUE)]
              ELSE [@ EXCEPT !.pc = "restore", !.code = 500, !.shape = "error",
                             !.body = {"error"}]
         ELSE [@ EXCEPT !.pc = "restore", !.code = 200, !.shape = "text",
                        !.body = response_keys(FALSE)]]
    /\ UNCHANGED <<disk, temp_files, temp_dirs, return_timestamps, config, notSvcVars>>

\* lines 150-152
Restore(r) ==
    /\ rq[r].pc = "restore"
    /\ return_timestamps' = rq[r].original
    /\ rq' = [rq EXCEPT ![r].pc = "exit_temp"]
    /\ UNCHANGED <<disk, temp_files, temp_dirs, config, notSvcVars>>

\* file_manager.py lines 97-98: leaving temp_file()
ExitTemp(r) ==
    /\ rq[r].pc = "exit_temp"
    /\ SetTm(cleanup_temp_files(Tm, <<rq[r].staged>>))
    /\ rq' = [rq EXCEPT ![r].pc = "done"]
    /\ UNCHANGED <<return_timestamps, config, notSvcVars>>

(***************************************************************************)
(* file_manager.py used directly: files are made, written by their user,   *)
(* and cleaned by list or all at once, while the operating system may      *)
(* refuse any removal.  fm keeps the number of files made, whether a       *)
(* removal was ever refused, what the disk held before the last call and   *)
(* what the last call was asked and did.                                   *)
(***************************************************************************)
NoFmCall ==
    [made |-> 0, op |-> "none", asked |-> <<>>, dirs_before |-> <<>>,
     visited |-> <<>>, caught |-> <<>>, raised |-> FALSE, disk_before |-> {},
     files_before |-> <<>>, refused |-> FALSE,
     cr |-> "idle", cl |-> [pc |-> "idle", pos |-> 0]]

FmInit == fm = NoFmCall

\* the paths create_temp_file has handed out so far
MadeFile(k) == FilePath(mkdtemp(1, k), Uuid \o ExtWav)
MadeDir(k) == DirPath(mkdtemp(1, k))
MadeFiles == {MadeFile(k) : k \in 1..fm.made}
MadeDirs == {MadeDir(k) : k \in 1..fm.made}

\* the lists a caller may pass: made files in any order, none twice
PathLists ==
    {<<>>} \cup {<<a>> : a \in MadeFiles}
           \cup {<<q[1], q[2]>> : q \in {w \in MadeFiles \X MadeFiles : w[1] # w[2]}}

\* refusals that matter to a call on these files
FaultsOn(paths) ==
    {[remove |-> rm, rmdir |-> rd] :
        rm \in SUBSET (paths \cap disk), rd \in SUBSET {dirname(q) : q \in paths}}

FmCreate ==
    /\ fm.made < MaxFiles
    /\ LET c == create_temp_file(Tm, mkdtemp(1, fm.made + 1), ExtWav)
       IN SetTm(c.tm)
    /\ fm' = [NoFmCall EXCEPT !.made = fm.made + 1, !.op = "create_temp_file",
                              !.refused = fm.refused]
    /\ UNCHANGED notFmVars

\* the user of a path writes the file (file.save, the stages' programs).
\* The write does not look at the manager's lists: it makes the file
\* whenever its directory exists
FmWrite ==
    /\ \E path \in MadeFiles :
         /\ exists(disk, dirname(path))
         /\ ~exists(disk, path)
         /\ disk' = disk \cup {path}
    /\ fm' = [NoFmCall EXCEPT !.made = fm.made, !.op = "write", !.refused = fm.refused]
    /\ UNCHANGED <<temp_files, temp_dirs, notFmVars>>

FmCleanup ==
    /\ fm.made > 0
    /\ \E file_paths \in PathLists :
         \E faults \in FaultsOn({file_paths[i] : i \in 1..Len(file_paths)}) :
            LET res == cleanup_temp_files_faulty(Tm, file_paths, faults)
            IN /\ SetTm(res.tm)
               /\ fm' = [made |-> fm.made, op |-> "cleanup_temp_files",
                         asked |-> file_paths, dirs_before |-> temp_dirs,
                         visited |-> res.visited, caught |-> res.caught,
                         raised |-> res.raised, disk_before |-> disk,
                      files_before |-> temp_files,
                         refused |-> fm.refused \/ res.caught # <<>>,
                      cr |-> fm.cr, cl |-> fm.cl]
    /\ UNCHANGED notFmVars

FmCleanupAll ==
    /\ fm.made > 0
    /\ \E faults \in FaultsOn({temp_files[i] : i \in 1..Len(temp_files)} \cup MadeFiles) :
         LET res == cleanup_all(Tm, faults)
         IN /\ SetTm(res.tm)
            /\ fm' = [made |-> fm.made, op |-> "cleanup_all",
                      asked |-> temp_files, dirs_before |-> temp_dirs,
                      visited |-> res.visited, caught |-> res.caught,
                      raised |-> res.raised, disk_before |-> disk,
                      files_before |-> temp_files,
                      refused |-> fm.refused \/ res.caught # <<>>,
                      cr |-> fm.cr, cl |-> fm.cl]
    /\ UNCHANGED notFmVars

NoSourceCall ==
    [called |-> FALSE, src |-> Source("upload", FALSE, <<>>, 0, 0, NoHeader, "none"),
     res |-> SourceResult(NoStream, <<>>, None, {}, NoPath, NoPath)]

SourceInit == scall = NoSourceCall

\* one get_audio_file call on an empty temp root
GetAudioFile ==
    /\ ~scall.called
    /\ \E src \in Sources :
         /\ src.pos <= src.len
         /\ scall' = [called |-> TRUE, src |-> src, res |-> get_audio_file(src, {}, mkdtemp(1, 1))]
    /\ UNCHANGED notSrcVars

(***************************************************************************)
(* routes.py: local_transcribe, up to the construction of the source.      *)
(***************************************************************************)
NoLocalReq ==
    [called |-> FALSE, file_path |-> <<>>, dirs |-> <<>>, cwd |-> <<>>,
     ok |-> FALSE, path |-> <<>>, status |-> 0, source |-> None]

PathInit == localReq = NoLocalReq

local_transcribe(file_path, dirs, cwd) ==
    LET res == validate_local_file_path(file_path, dirs, cwd)
    IN localReq' = [called |-> TRUE, file_path |-> file_path, dirs |-> dirs, cwd |-> cwd,
                    ok |-> res.ok, path |-> res.path,
                    status |-> IF res.ok THEN 0 ELSE 400,
                    source |-> IF res.ok THEN res.path ELSE None]

LocalTranscribe ==
    /\ ~localReq.called
    /\ \E file_path \in FilePaths, dirs \in AllowedLists, cwd \in Cwds :
            local_transcribe(file_path, dirs, cwd)
    /\ UNCHANGED notPathVars


(***************************************************************************)
(* async_tasks.py: AsyncTaskManager                                        *)
(***************************************************************************)
\* the uuid4 values run_task draws, named in the order they are drawn
TaskIds == {1, 2}
Results == {"text"}
Errors == {"boom"}
MaxAges == {0, 1}

NoVal == [kind |-> "none", v |-> None]
NoResp == [code |-> 0, task_id |-> 0, status |-> None, result |-> None, error |-> None]
IdleSweep == [pc |-> "idle", current_time |-> 0, max_age |-> 0, pos |-> 0, used |-> 0,
              to_remove |-> <<>>, raised |-> None]

IdlePoll == [pc |-> "idle", ref |-> 0, resp |-> NoResp]

TaskInit ==
    /\ tasks = <<>>
    /\ detached = <<>>
    /\ nextTask = 0
    /\ wpc = [t \in TaskIds |-> "none"]
    /\ wval = [t \in TaskIds |-> NoVal]
    /\ now = 0
    /\ poll = IdlePoll
    /\ sweep = IdleSweep

\* the record a reference to task t's dict reads, in the map or deleted from it
TaskObj(t) == IF t \in DOMAIN tasks THEN tasks[t] ELSE detached[t]

\* f with key k bound to v (a dict insert; keys keep their insertion order 1, 2, ...)
Put(f, k, v) == [x \in DOMAIN f \cup {k} |-> IF x = k THEN v ELSE f[x]]

\* a task record that is born already running, with its start time set
NewTaskStarted(created_at) ==
    [status |-> "running", result |-> None, error |-> None,
     created_at |-> created_at, started_at |-> created_at, completed_at |-> NoTime]

\* lines 41-48: the dict run_task stores for a new task
NewTask(created_at) ==
    [status |-> "pending", result |-> None, error |-> None,
     created_at |-> created_at, started_at |-> NoTime, completed_at |-> NoTime]

\* lines 38-53: the new task is stored and its thread started
start_task(task_id) ==
    /\ nextTask' = task_id
    /\ tasks' = Put(tasks, task_id, NewTask(now))
    /\ wpc' = [wpc EXCEPT ![task_id] = "set_running"]

\* run_task: lines 38-55; the thread it starts runs on its own
run_task ==
    /\ nextTask + 1 \in TaskIds
    /\ start_task(nextTask + 1)
    /\ UNCHANGED <<detached, wval, now, poll, sweep, notTaskVars>>

\* a worker that never reports an end
WorkerStatusStaysRunning(at) == "running"

\* the status the worker writes at each of its status assignments
WorkerStatus(at) ==
    CASE at = "set_running" -> "running"
      [] at = "ok_status" -> "completed"
      [] at = "err_status" -> "failed"

\* a worker that reports a failure after it has reported completion
WorkerNextPcSloppy(at) ==
    CASE at = "set_running" -> "set_started"
      [] at = "set_started" -> "call"
      [] at = "ok_status" -> "ok_result"
      [] at = "ok_result" -> "err_status"
      [] at = "ok_time" -> "done"
      [] at = "err_status" -> "err_error"
      [] at = "err_error" -> "err_time"
      [] at = "err_time" -> "done"

\* a worker whose handler records the failure and forgets its text
WorkerNextPcSkipsError(at) ==
    CASE at = "set_running" -> "set_started"
      [] at = "set_started" -> "call"
      [] at = "ok_status" -> "ok_result"
      [] at = "ok_result" -> "ok_time"
      [] at = "ok_time" -> "done"
      [] at = "err_status" -> "err_time"
      [] at = "err_error" -> "err_time"
      [] at = "err_time" -> "done"

\* the statement that follows each statement of _run_task_thread
WorkerNextPc(at) ==
    CASE at = "set_running" -> "set_started"
      [] at = "set_started" -> "call"
      [] at = "ok_status" -> "ok_result"
      [] at = "ok_result" -> "ok_time"
      [] at = "ok_time" -> "done"
      [] at = "err_status" -> "err_error"
      [] at = "err_error" -> "err_time"
      [] at = "err_time" -> "done"

\* lines 69, 76, 83: self.tasks[task_id]["status"] = ...
WorkerSetStatus(t) ==
    /\ wpc[t] \in {"set_running", "ok_status", "err_status"}
    /\ t \in DOMAIN tasks
    /\ tasks' = [tasks EXCEPT ![t].status = WorkerStatus(wpc[t])]
    /\ wpc' = [wpc EXCEPT ![t] = WorkerNextPc(wpc[t])]
    /\ UNCHANGED <<detached, nextTask, wval, now, poll, sweep, notTaskVars>>

\* line 70: self.tasks[task_id]["started_at"] = time.time()
WorkerSetStarted(t) ==
    /\ wpc[t] = "set_started"
    /\ t \in DOMAIN tasks
    /\ tasks' = [tasks EXCEPT ![t].started_at = now]
    /\ wpc' = [wpc EXCEPT ![t] = WorkerNextPc(wpc[t])]
    /\ UNCHANGED <<detached, nextTask, wval, now, poll, sweep, notTaskVars>>

\* line 73: result = func(*args, **kwargs) returns
WorkerCallReturns(t) ==
    /\ wpc[t] = "call"
    /\ \E v \in Results : wval' = [wval EXCEPT ![t] = [kind |-> "ret", v |-> v]]
    /\ wpc' = [wpc EXCEPT ![t] = "ok_status"]
    /\ UNCHANGED <<tasks, detached, nextTask, now, poll, sweep, notTaskVars>>

\* line 73 raises, line 81 catches
WorkerCallRaises(t) ==
    /\ wpc[t] = "call"
    /\ \E e \in Errors : wval' = [wval EXCEPT ![t] = [kind |-> "exc", v |-> e]]
    /\ wpc' = [wpc EXCEPT ![t] = "err_status"]
    /\ UNCHANGED <<tasks, detached, nextTask, now, poll, sweep, notTaskVars>>

\* line 77: self.tasks[task_id]["result"] = result
WorkerSetResult(t) ==
    /\ wpc[t] = "ok_result"
    /\ t \in DOMAIN tasks
    /\ tasks' = [tasks EXCEPT ![t].result = wval[t].v]
    /\ wpc' = [wpc EXCEPT ![t] = WorkerNextPc(wpc[t])]
    /\ UNCHANGED <<detached, nextTask, wval, now, poll, sweep, notTaskVars>>

\* line 84: self.tasks[task_id]["error"] = str(e)
WorkerSetError(t) ==
    /\ wpc[t] = "err_error"
    /\ t \in DOMAIN tasks
    /\ tasks' = [tasks EXCEPT ![t].error = wval[t].v]
    /\ wpc' = [wpc EXCEPT ![t] = WorkerNextPc(wpc[t])]
    /\ UNCHANGED <<detached, nextTask, wval, now, poll, sweep, notTaskVars>>

\* lines 78, 85: self.tasks[task_id]["completed_at"] = time.time()
WorkerSetCompleted(t) ==
    /\ wpc[t] \in {"ok_time", "err_time"}
    /\ t \in DOMAIN tasks
    /\ tasks' = [tasks EXCEPT ![t].completed_at = now]
    /\ wpc' = [wpc EXCEPT ![t] = WorkerNextPc(wpc[t])]
    /\ UNCHANGED <<detached, nextTask, wval, now, poll, sweep, notTaskVars>>

Tick ==
    /\ now < MaxTime
    /\ now' = now + 1
    /\ UNCHANGED <<tasks, detached, nextTask, wpc, wval, poll, sweep, notTaskVars>>

(***************************************************************************)
(* routes.py: get_task_status (GET /v1/tasks/<task_id>), line by line: it  *)
(* holds a reference to the task's dict and reads its fields one by one.   *)
(***************************************************************************)
\* lines 224-227: task_info = task_manager.get_task_status(task_id)
PollLookup ==
    /\ poll.pc = "idle"
    /\ \E task_id \in TaskIds :
         IF task_id \in DOMAIN tasks
         THEN poll' = [pc |-> "read_status", ref |-> task_id,
                       resp |-> [NoResp EXCEPT !.task_id = task_id]]
         ELSE poll' = [pc |-> "respond", ref |-> 0,
                       resp |-> [NoResp EXCEPT !.code = 404, !.task_id = task_id]]
    /\ UNCHANGED <<tasks, detached, nextTask, wpc, wval, now, sweep, notTaskVars>>

\* lines 229-232: response = {"task_id": ..., "status": task_info["status"]}
PollReadStatus ==
    /\ poll.pc = "read_status"
    /\ poll' = [poll EXCEPT !.pc = "if_completed", !.resp.status = TaskObj(poll.ref).status]
    /\ UNCHANGED <<tasks, detached, nextTask, wpc, wval, now, sweep, notTaskVars>>

\* line 234: if task_info["status"] == "completed"
PollIfCompleted ==
    /\ poll.pc = "if_completed"
    /\ poll' = [poll EXCEPT !.pc = IF TaskObj(poll.ref).status = "completed"
                                   THEN "read_result" ELSE "if_failed"]
    /\ UNCHANGED <<tasks, detached, nextTask, wpc, wval, now, sweep, notTaskVars>>

\* line 236: elif task_info["status"] == "failed"; line 239 when it is not
PollIfFailed ==
    /\ poll.pc = "if_failed"
    /\ poll' = IF TaskObj(poll.ref).status = "failed"
               THEN [poll EXCEPT !.pc = "read_error"]
               ELSE [poll EXCEPT !.pc = "respond", !.resp.code = 200]
    /\ detached' = IF poll'.pc = "respond" THEN <<>> ELSE detached
    /\ UNCHANGED <<tasks, nextTask, wpc, wval, now, sweep, notTaskVars>>

\* lines 235, 239: response["result"] = task_info["result"]
PollReadResult ==
    /\ poll.pc = "read_result"
    /\ poll' = [poll EXCEPT !.pc = "respond", !.resp.code = 200,
                            !.resp.result = TaskObj(poll.ref).result]
    /\ detached' = <<>>
    /\ UNCHANGED <<tasks, nextTask, wpc, wval, now, sweep, notTaskVars>>

\* lines 237, 239: response["error"] = task_info["error"]
PollReadError ==
    /\ poll.pc = "read_error"
    /\ poll' = [poll EXCEPT !.pc = "respond", !.resp.code = 200,
                            !.resp.error = TaskObj(poll.ref).error]
    /\ detached' = <<>>
    /\ UNCHANGED <<tasks, nextTask, wpc, wval, now, sweep, notTaskVars>>

\* line 239 (or 227): the response is sent; the handler's locals are gone
PollRespond ==
    /\ poll.pc = "respond"
    /\ poll' = IdlePoll
    /\ UNCHANGED <<tasks, detached, nextTask, wpc, wval, now, sweep, notTaskVars>>

(***************************************************************************)
(* async_tasks.py: cleanup_completed_tasks, one loop iteration per step.   *)
(* The iterator over self.tasks.items() remembers the dict's size and      *)
(* raises RuntimeError when the size has changed at its next step.         *)
(***************************************************************************)
RECURSIVE SortedSeq(_)
\* the keys of the task map in insertion order (ids are handed out in order)
SortedSeq(S) ==
    IF S = {} THEN <<>>
    ELSE LET m == CHOOSE x \in S : \A y \in S : x <= y
         IN <<m>> \o SortedSeq(S \ {m})

\* lines 108-111: current_time = time.time(); the loop's iterator is created
SweepStart ==
    /\ sweep.pc = "idle"
    /\ \E max_age_seconds \in MaxAges :
         sweep' = [pc |-> "iter", current_time |-> now, max_age |-> max_age_seconds,
                   pos |-> 1, used |-> Cardinality(DOMAIN tasks),
                   to_remove |-> <<>>, raised |-> None]
    /\ UNCHANGED <<tasks, detached, nextTask, wpc, wval, now, poll, notTaskVars>>

\* a sweep that also takes the tasks whose age equals max_age_seconds
SweepSelectsInclusive(task_info, current_time, max_age_seconds) ==
    IF task_info.status \notin {"completed", "failed"} THEN "no"
    ELSE IF task_info.completed_at = NoTime THEN "TypeError"
    ELSE IF current_time - task_info.completed_at >= max_age_seconds THEN "yes"
    ELSE "no"

\* the condition of lines 112-114 on one task; "TypeError" when the
\* subtraction meets completed_at = None
SweepSelects(task_info, current_time, max_age_seconds) ==
    IF task_info.status \notin {"completed", "failed"} THEN "no"
    ELSE IF task_info.completed_at = NoTime THEN "TypeError"
    ELSE IF current_time - task_info.completed_at > max_age_seconds THEN "yes"
    ELSE "no"

\* lines 111-115: one step of the for loop
SweepIter ==
    /\ sweep.pc = "iter"
    /\ IF Cardinality(DOMAIN tasks) # sweep.used
       THEN sweep' = [IdleSweep EXCEPT !.pc = "raised", !.raised = "RuntimeError"]
       ELSE IF sweep.pos > sweep.used
       THEN sweep' = [sweep EXCEPT !.pc = "delete"]
       ELSE LET task_id == SortedSeq(DOMAIN tasks)[sweep.pos]
                sel == SweepSelects(tasks[task_id], sweep.current_time, sweep.max_age)
            IN sweep' =
                 IF sel = "TypeError"
                 THEN [IdleSweep EXCEPT !.pc = "raised", !.raised = "TypeError"]
                 ELSE [sweep EXCEPT !.pos = sweep.pos + 1,
                                    !.to_remove = IF sel = "yes"
                                                  THEN Append(sweep.to_remove, task_id)
                                                  ELSE sweep.to_remove]
    /\ UNCHANGED <<tasks, detached, nextTask, wpc, wval, now, poll, notTaskVars>>

\* the task dicts a running request handler holds a reference to
Referenced == IF poll.pc \in {"idle", "respond"} THEN {} ELSE {poll.ref}

\* lines 117-119: one turn of for task_id in tasks_to_remove:
\* del self.tasks[task_id], then the log line; the other threads run
\* between two turns.  After the last turn, or with nothing to remove, the
\* method returns
SweepDelete ==
    /\ sweep.pc = "delete"
    /\ IF sweep.to_remove = <<>>
       THEN /\ sweep' = IdleSweep
            /\ UNCHANGED <<tasks, detached>>
       ELSE LET task_id == Head(sweep.to_remove)
            IN /\ tasks' = [t \in DOMAIN tasks \ {task_id} |-> tasks[t]]
               /\ detached' = IF task_id \in Referenced
                               THEN [t \in DOMAIN detached \cup {task_id} |->
                                        IF t = task_id THEN tasks[t] ELSE detached[t]]
                               ELSE detached
               /\ sweep' = IF Len(sweep.to_remove) = 1 THEN IdleSweep
                            ELSE [sweep EXCEPT !.to_remove = Tail(sweep.to_remove)]
    /\ UNCHANGED <<nextTask, wpc, wval, now, poll, notTaskVars>>

\* the exception leaves cleanup_completed_tasks: nothing was deleted
SweepRaise ==
    /\ sweep.pc = "raised"
    /\ sweep' = IdleSweep
    /\ UNCHANGED <<tasks, detached, nextTask, wpc, wval, now, poll, notTaskVars>>

(***************************************************************************)
(* cache.py: SimpleCache.  Each call is one step; time.time() is read from *)
(* the same clock as the task manager's.                                   *)
(***************************************************************************)
CacheKeys == {"k1", "k2"}
CacheValues == {"a", "b"}
Ttls == 0..(MaxTime + 1)

NoCacheCall == [op |-> "none", key |-> None, value |-> None, result |-> None, at |-> NoTime]

\* SimpleCache.__init__: an empty dict
CacheEmpty ==
    /\ cache = <<>>
    /\ ccall = NoCacheCall
    /\ written = <<>>

CacheInit == CacheEmpty /\ ttl = MaxTime

\* f without key k (del f[k])
Del(f, k) == [x \in DOMAIN f \ {k} |-> f[x]]

\* a get that still serves an entry whose age equals ttl
cache_get_inclusive(c, key, time) ==
    IF key \in DOMAIN c
    THEN IF time - c[key].timestamp <= ttl
         THEN [cache |-> c, result |-> c[key].value]
         ELSE [cache |-> Del(c, key), result |-> None]
    ELSE [cache |-> c, result |-> None]

\* SimpleCache.get, lines 30-50, called at time.time() = time
cache_get(c, key, time) ==
    IF key \in DOMAIN c
    THEN IF time - c[key].timestamp < ttl
         THEN [cache |-> c, result |-> c[key].value]
         ELSE [cache |-> Del(c, key), result |-> None]
    ELSE [cache |-> c, result |-> None]

\* SimpleCache.set, lines 52-65
cache_set(c, key, value, time) == Put(c, key, [value |-> value, timestamp |-> time])

\* SimpleCache.delete, lines 74-89
cache_delete(c, key) ==
    IF key \in DOMAIN c THEN [cache |-> Del(c, key), result |-> TRUE]
    ELSE [cache |-> c, result |-> FALSE]

CacheGet ==
    /\ \E key \in CacheKeys :
         LET res == cache_get(cache, key, now)
         IN /\ cache' = res.cache
            /\ ccall' = [op |-> "get", key |-> key, value |-> None,
                          result |-> res.result, at |-> now]
    /\ UNCHANGED <<ttl, written, notCacheVars>>

CacheSet ==
    /\ \E key \in CacheKeys, value \in CacheValues :
         /\ cache' = cache_set(cache, key, value, now)
         /\ written' = Put(written, key, [value |-> value, timestamp |-> now])
         /\ ccall' = [op |-> "set", key |-> key, value |-> value, result |-> None, at |-> now]
    /\ UNCHANGED <<ttl, notCacheVars>>

CacheDelete ==
    /\ \E key \in CacheKeys :
         LET res == cache_delete(cache, key)
         IN /\ cache' = res.cache
            /\ written' = Del(written, key)
            /\ ccall' = [op |-> "delete", key |-> key, value |-> None,
                          result |-> res.result, at |-> now]
    /\ UNCHANGED <<ttl, notCacheVars>>

\* SimpleCache.clear, lines 67-72
CacheClear ==
    /\ cache' = <<>>
    /\ written' = <<>>
    /\ ccall' = [op |-> "clear", key |-> None, value |-> None, result |-> None, at |-> now]
    /\ UNCHANGED <<ttl, notCacheVars>>

InitCache ==
    /\ CacheEmpty /\ ttl \in Ttls
    /\ TaskInit /\ PathInit /\ ValidateInit /\ SourceInit /\ ServiceInit /\ FmInit
    /\ ~config.return_timestamps
    /\ config.audio_speed_factor = "1.0"
NextCache == CacheSet \/ CacheGet \/ CacheDelete \/ CacheClear \/ Tick
SpecCache == InitCache /\ [][NextCache]_vars

\* the task manager reads nothing of the service's configuration: one
\* configuration stands for all of them
InitTasks ==
    /\ TaskInit /\ PathInit /\ ValidateInit /\ SourceInit /\ ServiceInit /\ FmInit /\ CacheInit
    /\ ~config.return_timestamps
    /\ config.audio_speed_factor = "1.0"

NextTasks ==
    \/ run_task
    \/ \E t \in TaskIds : WorkerSetStatus(t)
    \/ \E t \in TaskIds : WorkerSetStarted(t)
    \/ \E t \in TaskIds : WorkerCallReturns(t)
    \/ \E t \in TaskIds : WorkerCallRaises(t)
    \/ \E t \in TaskIds : WorkerSetResult(t)
    \/ \E t \in TaskIds : WorkerSetError(t)
    \/ \E t \in TaskIds : WorkerSetCompleted(t)
    \/ Tick
    \/ PollLookup
    \/ PollReadStatus
    \/ PollIfCompleted
    \/ PollIfFailed
    \/ PollReadResult
    \/ PollReadError
    \/ PollRespond
    \/ SweepStart
    \/ SweepIter
    \/ SweepDelete
    \/ SweepRaise

SpecTasks == InitTasks /\ [][NextTasks]_vars

(***************************************************************************)
(* The task manager as the service runs it: POST /v1/audio/transcriptions/ *)
(* async calls run_task, the worker threads run, clients poll              *)
(* GET /v1/tasks/<task_id>, the clock advances.  No route, thread or timer *)
(* of the repository calls cleanup_completed_tasks.  The threads are       *)
(* scheduled by the operating system and the clock does not stop.          *)
(***************************************************************************)
\* _run_task_thread: the statements of one worker
Worker(t) ==
    \/ WorkerSetStatus(t)
    \/ WorkerSetStarted(t)
    \/ WorkerCallReturns(t)
    \/ WorkerCallRaises(t)
    \/ WorkerSetResult(t)
    \/ WorkerSetError(t)
    \/ WorkerSetCompleted(t)

NextServing ==
    \/ run_task
    \/ \E t \in TaskIds : WorkerSetStatus(t)
    \/ \E t \in TaskIds : WorkerSetStarted(t)
    \/ \E t \in TaskIds : WorkerCallReturns(t)
    \/ \E t \in TaskIds : WorkerCallRaises(t)
    \/ \E t \in TaskIds : WorkerSetResult(t)
    \/ \E t \in TaskIds : WorkerSetError(t)
    \/ \E t \in TaskIds : WorkerSetCompleted(t)
    \/ Tick
    \/ PollLookup
    \/ PollReadStatus
    \/ PollIfCompleted
    \/ PollIfFailed
    \/ PollReadResult
    \/ PollReadError
    \/ PollRespond

SpecServing ==
    /\ InitTasks
    /\ [][NextServing]_vars
    /\ \A t \in TaskIds : WF_vars(Worker(t))
    /\ WF_vars(Tick)

(***************************************************************************)
(* POST /v1/audio/transcriptions/async (routes.py lines 190-219): request  *)
(* 1 is the route, which stages the upload inside temp_file(), hands the   *)
(* staged path to run_task and returns 202; the task's thread calls        *)
(* transcriber.process_file on that path.  The record rq[Op] is that call: *)
(* its staged field is the path it was given, its pf field tells whether   *)
(* process_file is running, has returned or has raised.                    *)
(***************************************************************************)
Route == 1
Op == 2
AsyncSources == {src \in ServiceSources : src.kind = "upload"}

\* routes.py lines 206-209: validate_file, a ValidationError is answered 400
AsyncValidate(r) ==
    /\ rq[r].pc = "validate"
    /\ \E sniff \in Sniffs :
         LET res == validate_file(rq[r].file, rq[r].filename, sniff)
         IN rq' = [rq EXCEPT ![r] =
              IF res.ok
              THEN [@ EXCEPT !.pc = "enter_temp", !.file = res.file]
              ELSE [@ EXCEPT !.pc = "done", !.file = res.file, !.code = 400,
                             !.shape = "error"]]
    /\ UNCHANGED <<disk, temp_files, temp_dirs, return_timestamps, config, notSvcVars>>

\* routes.py line 214: file.save(temp_path); an exception leaves the with
\* block, the upload read as far as the copy went
AsyncSave(r, outcomes) ==
    /\ rq[r].pc = "save"
    /\ \E outcome \in outcomes :
         /\ disk' = IF outcome = "fail" THEN disk ELSE disk \cup {rq[r].staged}
         /\ \E pos \in (IF outcome = "fail_partial" THEN save_failed_positions(rq[r].file)
                         ELSE {rq[r].file.pos}) :
              rq' = [rq EXCEPT ![r] =
                   IF outcome = "ok"
                   THEN [@ EXCEPT !.pc = "run_task", !.file.pos = rq[r].file.len]
                   ELSE [@ EXCEPT !.pc = "exit_temp", !.code = 500, !.shape = "exception",
                                  !.file.pos = pos]]
    /\ UNCHANGED <<temp_files, temp_dirs, return_timestamps, config, notSvcVars>>

\* routes.py lines 217-219 and async_tasks.py line 137: run_task is given
\* process_file and the staged path, and the route returns 202 from inside
\* the with block
AsyncRunTask(r) ==
    /\ rq[r].pc = "run_task"
    /\ nextTask + 1 \in TaskIds
    /\ start_task(nextTask + 1)
    /\ rq' = [rq EXCEPT ![r].pc = "exit_temp", ![r].code = 202, ![r].shape = "task_id",
                        ![Op].staged = rq[r].staged]
    /\ UNCHANGED <<detached, wval, now, poll, sweep, disk, temp_files, temp_dirs,
                   return_timestamps, config, pathVars, valVars, srcVars, fmVars,
                   cacheVars>>

\* async_tasks.py line 73 calls process_file(file_path): transcriber.py
\* lines 259-263
AsyncCall(t) ==
    /\ wpc[t] = "call"
    /\ rq[Op].pc = "idle"
    /\ rq' = [rq EXCEPT ![Op].pc = "convert", ![Op].pf = "running",
                        ![Op].pf_before = Own(Op, disk), ![Op].cur = rq[Op].staged]
    /\ UNCHANGED <<disk, temp_files, temp_dirs, return_timestamps, config, notSvcVars>>

\* what an external program can do with its input: without the input file
\* it fails before it writes anything
ReadOutcomes(input_path, outcomes) ==
    IF exists(disk, input_path) THEN outcomes ELSE {"fail"}

\* the same for a stage's program, which opened its input when it started
RanOutcomes(r, outcomes) ==
    IF rq[r].reads THEN outcomes ELSE {"fail"}

\* audio_processor.py lines 56-68 on a path that is not on disk: soxi
\* fails, which is logged, and the output path is made for ffmpeg
ConvertMissingInput(r) ==
    /\ rq[r].pc = "convert"
    /\ rq[r].out = NoPath
    /\ ~exists(disk, rq[r].cur)
    /\ StageStarted(r, convert_to_wav(Tm, rq[r].cur, mkdtemp(r, rq[r].ndirs + 1),
                                      "CalledProcessError"),
                    "convert", FALSE)
    /\ UNCHANGED <<return_timestamps, config, notSvcVars>>

\* async_tasks.py line 73: process_file has returned
AsyncCallReturns(t) ==
    /\ rq[Op].pf = "returned"
    /\ WorkerCallReturns(t)

\* async_tasks.py lines 73 and 81: process_file has raised
AsyncCallRaises(t) ==
    /\ rq[Op].pf = "raised"
    /\ WorkerCallRaises(t)

InitAsync ==
    /\ ServiceInit /\ PathInit /\ TaskInit /\ ValidateInit /\ SourceInit /\ FmInit /\ CacheInit

NextAsync ==
    \/ Fetch(Route, AsyncSources, {NoParam})
    \/ AsyncValidate(Route)
    \/ EnterTemp(Route)
    \/ AsyncSave(Route, StageOutcomes)
    \/ AsyncRunTask(Route)
    \/ ExitTemp(Route)
    \/ \E t \in TaskIds : WorkerSetStatus(t)
    \/ \E t \in TaskIds : WorkerSetStarted(t)
    \/ \E t \in TaskIds : AsyncCall(t)
    \/ (exists(disk, rq[Op].cur) /\ Convert(Op))
    \/ ConvertMissingInput(Op)
    \/ ConvertRan(Op, RanOutcomes(Op, StageOutcomes))
    \/ Normalize(Op)
    \/ NormalizeRan(Op, RanOutcomes(Op, StageOutcomes))
    \/ SpeedUp(Op)
    \/ SpeedUpRan(Op, RanOutcomes(Op, StageOutcomes))
    \/ AddSilence(Op)
    \/ AddSilenceRan(Op, RanOutcomes(Op, StageOutcomes))
    \/ Infer(Op, ReadOutcomes(rq[Op].cur, CallOutcomes))
    \/ InferRaised(Op)
    \/ Format(Op)
    \/ \E t \in TaskIds : AsyncCallReturns(t)
    \/ \E t \in TaskIds : AsyncCallRaises(t)
    \/ \E t \in TaskIds : WorkerSetResult(t)
    \/ \E t \in TaskIds : WorkerSetError(t)
    \/ \E t \in TaskIds : WorkerSetCompleted(t)
    \/ Tick

SpecAsync == InitAsync /\ [][NextAsync]_vars

(***************************************************************************)
(* cache.py with two threads and no lock: each thread calls get, set,      *)
(* delete and clear, one statement at a time.  ccall[t] is thread t's      *)
(* call: its next statement, the item line 41 has read, and what the call  *)
(* returned or raised.  A dict store, a dict delete and dict.clear are     *)
(* each one step.  A get may also be the one a function wrapped by         *)
(* cache_result makes at line 114 (wrapped): value is then what func       *)
(* returned, invoked whether func was called, and fresh whether line 42    *)
(* found the entry within its TTL.                                         *)
(***************************************************************************)
Threads == {1, 2}
NoItem == [value |-> None, timestamp |-> NoTime]
IdleThread ==
    [op |-> "none", key |-> None, pc |-> "idle", item |-> NoItem, result |-> None,
     raised |-> None, wrapped |-> FALSE, value |-> None, invoked |-> FALSE,
     fresh |-> FALSE]

\* the end of a call: what it returned or raised is kept until the next call.
\* An exception of the get leaves the wrapper too (no try around line 114)
Returned(t, op, key, result) ==
    ccall' = [ccall EXCEPT ![t] = [IdleThread EXCEPT !.op = op, !.key = key,
                                                     !.result = result]]
Raised(t, exception) ==
    ccall' = [ccall EXCEPT ![t] = [@ EXCEPT !.pc = "idle", !.item = NoItem,
                                            !.raised = exception]]
Goes(t, op, key, pc) ==
    ccall' = [ccall EXCEPT ![t] = [IdleThread EXCEPT !.op = op, !.key = key, !.pc = pc]]

\* get returns.  Called by the wrapper (lines 114-116), a result that is not
\* None is returned to the wrapper's caller, and after None the wrapper goes
\* on to call func
GetReturned(t, result, fresh) ==
    IF ccall[t].wrapped
    THEN ccall' = [ccall EXCEPT ![t] =
             [@ EXCEPT !.pc = IF result # None THEN "idle" ELSE "func",
                       !.item = NoItem, !.result = result, !.fresh = fresh]]
    ELSE Returned(t, "get", ccall[t].key, result)

\* line 40: if key in self.cache
RaceGetCheck(t) ==
    /\ ccall[t].pc = "idle"
    /\ \E key \in CacheKeys :
         IF key \in DOMAIN cache THEN Goes(t, "get", key, "get_read")
         ELSE Returned(t, "get", key, None)
    /\ UNCHANGED <<cache, ttl, written, notCacheVars>>

\* line 41: item = self.cache[key]
RaceGetRead(t) ==
    /\ ccall[t].pc = "get_read"
    /\ IF ccall[t].key \in DOMAIN cache
       THEN ccall' = [ccall EXCEPT ![t].pc = "get_compare", ![t].item = cache[ccall[t].key]]
       ELSE Raised(t, "KeyError")
    /\ UNCHANGED <<cache, ttl, written, notCacheVars>>

\* lines 42-44: the age of the item read at line 41
RaceGetCompare(t) ==
    /\ ccall[t].pc = "get_compare"
    /\ IF now - ccall[t].item.timestamp < ttl
       THEN GetReturned(t, ccall[t].item.value, TRUE)
       ELSE ccall' = [ccall EXCEPT ![t].pc = "get_del"]
    /\ UNCHANGED <<cache, ttl, written, notCacheVars>>

\* lines 47-51: del self.cache[key], then return None
RaceGetDel(t) ==
    /\ ccall[t].pc = "get_del"
    /\ IF ccall[t].key \in DOMAIN cache
       THEN /\ cache' = Del(cache, ccall[t].key)
            /\ GetReturned(t, None, FALSE)
       ELSE /\ Raised(t, "KeyError")
            /\ UNCHANGED cache
    /\ UNCHANGED <<ttl, written, notCacheVars>>

\* lines 61-64
RaceSet(t) ==
    /\ ccall[t].pc = "idle"
    /\ \E key \in CacheKeys, value \in CacheValues :
         /\ cache' = cache_set(cache, key, value, now)
         /\ Returned(t, "set", key, None)
    /\ UNCHANGED <<ttl, written, notCacheVars>>

\* line 71
RaceClear(t) ==
    /\ ccall[t].pc = "idle"
    /\ cache' = <<>>
    /\ Returned(t, "clear", None, None)
    /\ UNCHANGED <<ttl, written, notCacheVars>>

\* line 84: if key in self.cache
RaceDeleteCheck(t) ==
    /\ ccall[t].pc = "idle"
    /\ \E key \in CacheKeys :
         IF key \in DOMAIN cache THEN Goes(t, "delete", key, "delete_del")
         ELSE Returned(t, "delete", key, "False")
    /\ UNCHANGED <<cache, ttl, written, notCacheVars>>

\* lines 85-87: del self.cache[key], then return True
RaceDeleteDel(t) ==
    /\ ccall[t].pc = "delete_del"
    /\ IF ccall[t].key \in DOMAIN cache
       THEN /\ cache' = Del(cache, ccall[t].key)
            /\ Returned(t, "delete", ccall[t].key, "True")
       ELSE /\ Raised(t, "KeyError")
            /\ UNCHANGED cache
    /\ UNCHANGED <<ttl, written, notCacheVars>>

InitCacheRace ==
    /\ cache = <<>>
    /\ written = <<>>
    /\ ccall = [t \in Threads |-> IdleThread]
    /\ ttl \in Ttls
    /\ TaskInit /\ PathInit /\ ValidateInit /\ SourceInit /\ ServiceInit /\ FmInit
    /\ ~config.return_timestamps
    /\ config.audio_speed_factor = "1.0"

NextCacheRace ==
    \/ \E t \in Threads :
          \/ RaceGetCheck(t)
          \/ RaceGetRead(t)
          \/ RaceGetCompare(t)
          \/ RaceGetDel(t)
          \/ RaceSet(t)
          \/ RaceClear(t)
          \/ RaceDeleteCheck(t)
          \/ RaceDeleteDel(t)
    \/ Tick

SpecCacheRace == InitCacheRace /\ [][NextCacheRace]_vars

(***************************************************************************)
(* cache.py: cache_result.  Two threads call the wrapped function, one     *)
(* statement at a time: the key is made and get is called (line 114), get  *)
(* runs its own statements (lines 40-51, the steps RaceGetRead,            *)
(* RaceGetCompare and RaceGetDel), func is called (line 119), which takes  *)
(* time, and its result is set (line 122).                                 *)
(***************************************************************************)
\* what a function wrapped by cache_result may return
FuncValues == CacheValues \cup {None}

\* lines 111-114 and get's line 40: the key is made from the arguments,
\* cache_instance.get(cache_key) is called and tests whether the key is in
\* the cache; when it is not, get returns None and the wrapper goes on to
\* call func
WrappedGetCheck(t) ==
    /\ ccall[t].pc = "idle"
    /\ \E key \in CacheKeys :
         ccall' = [ccall EXCEPT ![t] =
             [IdleThread EXCEPT !.op = "cache_result", !.key = key, !.wrapped = TRUE,
                                !.pc = IF key \in DOMAIN cache THEN "get_read"
                                       ELSE "func"]]
    /\ UNCHANGED <<cache, ttl, written, notCacheVars>>

\* line 119: result = func(*args, **kwargs)
WrappedFunc(t) ==
    /\ ccall[t].pc = "func"
    /\ \E value \in FuncValues :
         ccall' = [ccall EXCEPT ![t].pc = "set", ![t].value = value, ![t].invoked = TRUE]
    /\ UNCHANGED <<cache, ttl, written, notCacheVars>>

\* lines 122-124: cache_instance.set(cache_key, result), stamped with the
\* time of the set, and the result is returned
WrappedSet(t) ==
    /\ ccall[t].pc = "set"
    /\ cache' = cache_set(cache, ccall[t].key, ccall[t].value, now)
    /\ ccall' = [ccall EXCEPT ![t].pc = "idle", ![t].result = ccall[t].value]
    /\ UNCHANGED <<ttl, written, notCacheVars>>

InitWrapped ==
    /\ cache = <<>>
    /\ written = <<>>
    /\ ccall = [t \in Threads |-> IdleThread]
    /\ ttl \in Ttls
    /\ TaskInit /\ PathInit /\ ValidateInit /\ SourceInit /\ ServiceInit /\ FmInit
    /\ ~config.return_timestamps
    /\ config.audio_speed_factor = "1.0"

NextWrapped ==
    \/ \E t \in Threads :
          \/ WrappedGetCheck(t)
          \/ RaceGetRead(t)
          \/ RaceGetCompare(t)
          \/ RaceGetDel(t)
          \/ WrappedFunc(t)
          \/ WrappedSet(t)
    \/ Tick

SpecWrapped == InitWrapped /\ [][NextWrapped]_vars

InitPath == PathInit /\ TaskInit /\ ValidateInit /\ SourceInit /\ ServiceInit /\ FmInit /\ CacheInit
NextPath == LocalTranscribe
SpecPath == InitPath /\ [][NextPath]_vars

InitValidate == ValidateInit /\ PathInit /\ TaskInit /\ SourceInit /\ ServiceInit /\ FmInit /\ CacheInit
NextValidate == ValidateFile
SpecValidate == InitValidate /\ [][NextValidate]_vars

\* one request, every source and every outcome of the outside world
Init == ServiceInit /\ PathInit /\ TaskInit /\ ValidateInit /\ SourceInit /\ FmInit /\ CacheInit
Next ==
    \E r \in {1} :
        \/ Fetch(r, ServiceSources, ServiceParams)
        \/ Validate(r)
        \/ SaveOriginal(r)
        \/ Override(r)
        \/ EnterTemp(r)
        \/ Save(r, StageOutcomes)
        \/ Probe(r, CallOutcomes)
        \/ SourceCleanup(r)
        \/ Convert(r)
        \/ ConvertRan(r, StageOutcomes)
        \/ Normalize(r)
        \/ NormalizeRan(r, StageOutcomes)
        \/ SpeedUp(r)
        \/ SpeedUpRan(r, StageOutcomes)
        \/ AddSilence(r)
        \/ AddSilenceRan(r, StageOutcomes)
        \/ Infer(r, CallOutcomes)
        \/ InferRaised(r)
        \/ Format(r)
        \/ Respond(r)
        \/ Restore(r)
        \/ ExitTemp(r)
Spec == Init /\ [][Next]_vars

\* two uploads in two threads of the pool; the external programs succeed,
\* the model may fail
RaceSources == { Source("upload", TRUE, AWav, 2048, 0, NoHeader, "none") }
InitRace == ServiceInit /\ PathInit /\ TaskInit /\ ValidateInit /\ SourceInit /\ FmInit /\ CacheInit
NextRace ==
    \E r \in Procs :
        \/ Fetch(r, RaceSources, RaceParams)
        \/ Validate(r)
        \/ SaveOriginal(r)
        \/ Override(r)
        \/ EnterTemp(r)
        \/ Save(r, {"ok"})
        \/ Probe(r, {"ok"})
        \/ SourceCleanup(r)
        \/ Convert(r)
        \/ ConvertRan(r, {"ok"})
        \/ Normalize(r)
        \/ NormalizeRan(r, {"ok"})
        \/ SpeedUp(r)
        \/ SpeedUpRan(r, {"ok"})
        \/ AddSilence(r)
        \/ AddSilenceRan(r, {"ok"})
        \/ Infer(r, CallOutcomes)
        \/ InferRaised(r)
        \/ Format(r)
        \/ Respond(r)
        \/ Restore(r)
        \/ ExitTemp(r)
SpecRace == InitRace /\ [][NextRace]_vars

(***************************************************************************)
(* file_manager.py with two threads and no lock: a request thread calls    *)
(* create_temp_file and writes the file, while another thread runs         *)
(* cleanup_all (app/__init__.py line 125).  fm.cr is the request thread's  *)
(* next statement, fm.cl the cleaning thread's next statement and the      *)
(* index its for loop has reached.  No removal is refused.                 *)
(***************************************************************************)
\* line 39: tempfile.mkdtemp()
CreateMkdtemp ==
    /\ fm.cr = "idle"
    /\ fm.made < MaxFiles
    /\ disk' = disk \cup {MadeDir(fm.made + 1)}
    /\ fm' = [fm EXCEPT !.made = @ + 1, !.cr = "append_file"]
    /\ UNCHANGED <<temp_files, temp_dirs, notFmVars>>

\* line 42: self.temp_files.append(temp_file)
CreateAppendFile ==
    /\ fm.cr = "append_file"
    /\ temp_files' = Append(temp_files, MadeFile(fm.made))
    /\ fm' = [fm EXCEPT !.cr = "append_dir"]
    /\ UNCHANGED <<disk, temp_dirs, notFmVars>>

\* line 43: self.temp_dirs.append(temp_dir)
CreateAppendDir ==
    /\ fm.cr = "append_dir"
    /\ temp_dirs' = Append(temp_dirs, MadeDir(fm.made))
    /\ fm' = [fm EXCEPT !.cr = "write"]
    /\ UNCHANGED <<disk, temp_files, notFmVars>>

\* the caller writes the file it was given (file.save, ffmpeg, sox); the
\* write fails when the directory is gone
CreateWrite ==
    /\ fm.cr = "write"
    /\ disk' = IF exists(disk, MadeDir(fm.made)) THEN disk \cup {MadeFile(fm.made)}
               ELSE disk
    /\ fm' = [fm EXCEPT !.cr = "idle"]
    /\ UNCHANGED <<temp_files, temp_dirs, notFmVars>>

\* line 104 calls cleanup_temp_files(): line 55 takes self.temp_files itself
\* as the list to loop over
CleanStart ==
    /\ fm.cl.pc = "idle"
    /\ fm' = [fm EXCEPT !.cl = [pc |-> "files", pos |-> 1]]
    /\ UNCHANGED <<disk, temp_files, temp_dirs, notFmVars>>

\* lines 57-73: one turn of the for loop, which sees the list as it is now
CleanFile ==
    /\ fm.cl.pc = "files"
    /\ IF fm.cl.pos <= Len(temp_files)
       THEN /\ SetTm(CleanPath(Tm, temp_files[fm.cl.pos]))
            /\ fm' = [fm EXCEPT !.cl.pos = @ + 1]
       ELSE /\ fm' = [fm EXCEPT !.cl.pc = "clear_files"]
            /\ UNCHANGED <<disk, temp_files, temp_dirs>>
    /\ UNCHANGED notFmVars

\* line 77: self.temp_files.clear()
CleanClearFiles ==
    /\ fm.cl.pc = "clear_files"
    /\ temp_files' = <<>>
    /\ fm' = [fm EXCEPT !.cl = [pc |-> "dirs", pos |-> 1]]
    /\ UNCHANGED <<disk, temp_dirs, notFmVars>>

\* lines 105-111: one turn of the loop over self.temp_dirs
CleanDir ==
    /\ fm.cl.pc = "dirs"
    /\ IF fm.cl.pos <= Len(temp_dirs)
       THEN LET temp_dir == temp_dirs[fm.cl.pos]
            IN /\ disk' = IF exists(disk, temp_dir) /\ listdir(disk, temp_dir) = {}
                          THEN disk \ {temp_dir} ELSE disk
               /\ fm' = [fm EXCEPT !.cl.pos = @ + 1]
       ELSE /\ fm' = [fm EXCEPT !.cl.pc = "clear_dirs"]
            /\ UNCHANGED disk
    /\ UNCHANGED <<temp_files, temp_dirs, notFmVars>>

\* line 112: self.temp_dirs.clear()
CleanClearDirs ==
    /\ fm.cl.pc = "clear_dirs"
    /\ temp_dirs' = <<>>
    /\ fm' = [fm EXCEPT !.cl = [pc |-> "idle", pos |-> 0]]
    /\ UNCHANGED <<disk, temp_files, notFmVars>>

InitFilesRace ==
    /\ ServiceInit /\ FmInit /\ PathInit /\ TaskInit /\ ValidateInit /\ SourceInit /\ CacheInit
    /\ ~config.return_timestamps
    /\ config.audio_speed_factor = "1.0"

NextFilesRace ==
    \/ CreateMkdtemp
    \/ CreateAppendFile
    \/ CreateAppendDir
    \/ CreateWrite
    \/ CleanStart
    \/ CleanFile
    \/ CleanClearFiles
    \/ CleanDir
    \/ CleanClearDirs

SpecFilesRace == InitFilesRace /\ [][NextFilesRace]_vars

InitFiles == ServiceInit /\ FmInit /\ PathInit /\ TaskInit /\ ValidateInit /\ SourceInit /\ CacheInit
NextFiles == FmCreate \/ FmWrite \/ FmCleanup \/ FmCleanupAll
SpecFiles == InitFiles /\ [][NextFiles]_vars

InitSource == SourceInit /\ PathInit /\ TaskInit /\ ValidateInit /\ ServiceInit /\ FmInit /\ CacheInit
NextSource == GetAudioFile
SpecSource == InitSource /\ [][NextSource]_vars

(***************************************************************************)
(* Claims about the task manager (checked under SpecTasks).                *)
(***************************************************************************)
StatusSteps == { <<"pending", "running">>, <<"running", "completed">>, <<"running", "failed">> }

\* C2: in every step, for every task that stays in the task map, the status
\* either keeps its value or takes one of the steps pending -> running,
\* running -> completed, running -> failed; so a terminal status never changes
\* and no status moves back to pending or running.
C2_StatusOnlyMovesForward ==
    [][\A t \in DOMAIN tasks \cap DOMAIN tasks' :
          \/ tasks'[t].status = tasks[t].status
          \/ <<tasks[t].status, tasks'[t].status>> \in StatusSteps]_vars

\* one task completed and another failed while a poll and a sweep are under way
C2_Witness ==
    /\ \E t \in DOMAIN tasks, u \in DOMAIN tasks :
         tasks[t].status = "completed" /\ tasks[u].status = "failed"
    /\ poll.pc = "if_completed"
    /\ sweep.pc = "iter"

\* C3: a task observed as completed already holds the operation's return value
\* in result, one observed as failed already holds the exception text in error
\* (in the task map and in the response of /v1/tasks/<task_id>), and result
\* and error are never both set.
C3_TerminalStatusCarriesPayload ==
    /\ \A t \in DOMAIN tasks :
         /\ tasks[t].status = "completed" =>
              wval[t].kind = "ret" /\ tasks[t].result = wval[t].v
         /\ tasks[t].status = "failed" =>
              wval[t].kind = "exc" /\ tasks[t].error = wval[t].v
         /\ ~(tasks[t].result # None /\ tasks[t].error # None)
    /\ (poll.pc = "respond" /\ poll.resp.code = 200) =>
         /\ poll.resp.status = "completed" => poll.resp.result = wval[poll.resp.task_id].v
         /\ poll.resp.status = "failed" => poll.resp.error = wval[poll.resp.task_id].v

(***************************************************************************)
(* Claims about the local path check (checked under SpecPath).             *)
(***************************************************************************)
\* C7: with a non-empty allow-list a path is returned only if some allowed
\* directory is the returned path or a directory above it, component by
\* component; '../../etc/passwd' under ['/data'] is refused, 'clip.wav' under
\* ['/data'] gives '/data/clip.wav', and a path into the sibling '/data2' is
\* refused under ['/data'].
C7_ReturnedPathIsUnderARoot ==
    (localReq.called /\ Truthy(localReq.dirs)) =>
        /\ localReq.ok =>
             \E i \in 1..Len(localReq.dirs) :
                 IsAncestor(abspath(localReq.dirs[i], localReq.cwd), localReq.path)
        /\ (localReq.dirs = <<DataDir>> /\ localReq.file_path = EtcPasswd) => ~localReq.ok
        /\ (localReq.dirs = <<DataDir>> /\ localReq.file_path = ClipWav) =>
             localReq.ok /\ localReq.path = DataDir \o <<Sep>> \o ClipWav
        /\ (localReq.dirs = <<DataDir>> /\ localReq.file_path \in {Data2X, UpData2X}) =>
             ~localReq.ok

\* C8: with an empty or None allow-list validate_local_file_path fails
\* closed: it raises ValidationError instead of returning a path, and the
\* /local/transcriptions route answers 400 and builds no LocalFileSource.
C8_EmptyAllowListFailsClosed ==
    (localReq.called /\ ~Truthy(localReq.dirs)) =>
        ~localReq.ok /\ localReq.status = 400 /\ localReq.source = None

(***************************************************************************)
(* Claims about validate_file (checked under SpecValidate).                *)
(***************************************************************************)
\* C6: when the size and extension checks pass and the sniffed content type
\* is determined and not in allowed_mime_types, validate_file raises
\* ValidationError.
C6_DisallowedMimeIsRejected ==
    ( /\ vcall.called
      /\ vcall.file.kind = "upload"
      /\ vcall.file.len <= MaxSizeBytes
      /\ validate_file_extension(vcall.filename) = None
      /\ vcall.sniff # "raise"
      /\ vcall.sniff \notin allowed_mime_types )
    => (~vcall.ok /\ vcall.error = "mime")

(***************************************************************************)
(* Claims about the audio sources (checked under SpecSource).              *)
(***************************************************************************)
\* C9: for every source variant, get_audio_file on content longer than
\* max_file_size_mb*1024*1024 bytes returns the size error with no handle
\* and leaves none of the content in a scratch file, whatever the URL
\* response's Content-Length header says.
C9_OversizeContentIsRefused ==
    ( /\ scall.called
      /\ scall.src.fault = "none"
      /\ scall.src.has_part /\ (scall.src.kind = "upload" => scall.src.filename # <<>>)
      /\ scall.src.len > max_file_size_mb * 1024 * 1024 )
    => ( /\ scall.res.error = "size"
         /\ scall.res.file = NoStream
         /\ scall.res.disk = {} )

(***************************************************************************)
(* Claims about the service (checked under Spec and SpecRace).             *)
(***************************************************************************)
\* C1: after any run of process_file, returned or raised, the temp root
\* holds for the request exactly what it held when the run started,
\* the failed stage's output path and directory included.
C1_PipelineLeavesTempRootAsFound ==
    \A r \in Procs :
        (rq[r].pf \in {"returned", "raised"} /\ rq[r].pc \in {"respond", "restore", "exit_temp"})
        => Own(r, disk) = rq[r].pf_before

\* C4: when two concurrent calls with different return_timestamps
\* preferences have both answered 200, each call's inference ran with its
\* own flag, each response has the shape its own flag asks for, and the
\* shared flag is back at the configured default.
C4_ConcurrentCallsKeepTheirOwnFlag ==
    ( /\ \A r \in Procs : rq[r].pc = "done" /\ rq[r].code = 200
      /\ rq[1].want # rq[2].want )
    => ( /\ \A r \in Procs :
              /\ rq[r].used = rq[r].want
              /\ rq[r].result = IF rq[r].want THEN "dict" ELSE "str"
         /\ return_timestamps = config.return_timestamps )

\* C5: once transcribe_from_source has returned for a URL or base64
\* source, whatever the outcome, the source's scratch file and scratch
\* directory are gone.
C5_SourceScratchIsGoneAfterReturn ==
    \A r \in Procs :
        (rq[r].pc = "done" /\ has_cleanup(rq[r].src))
        => (~exists(disk, rq[r].temp_file_path) /\ ~exists(disk, rq[r].temp_dir))

\* C10: once the temp_file context has exited, by whatever path and whether
\* or not the body wrote the file, neither the file nor its directory is
\* on disk or tracked.
C10_TempFileContextReleasesFileAndDir ==
    \A r \in Procs :
        (rq[r].pc = "done" /\ rq[r].staged # NoPath)
        => ( /\ ~exists(disk, rq[r].staged)
             /\ ~exists(disk, dirname(rq[r].staged))
             /\ \A i \in 1..Len(temp_files) : temp_files[i] # rq[r].staged
             /\ \A i \in 1..Len(temp_dirs) : temp_dirs[i] # dirname(rq[r].staged) )

(***************************************************************************)
(* Claims about the temporary file manager (checked under SpecFiles).      *)
(***************************************************************************)
InSeq(x, seq) == \E i \in 1..Len(seq) : seq[i] = x

\* C11: every file or directory made through create_temp_file that is
\* still on disk is still tracked in temp_files or temp_dirs, also after a
\* cleanup call in which a removal failed.
C11_WhatIsOnDiskIsTracked ==
    /\ \A f \in MadeFiles : exists(disk, f) => InSeq(f, temp_files)
    /\ \A d \in MadeDirs : exists(disk, d) => InSeq(d, temp_dirs)

\* C16: cleanup_temp_files and cleanup_all never raise, whatever is missing
\* and whatever removal fails, and a failure on one path does not keep the
\* later paths from being processed: every listed file is visited, and
\* cleanup_all leaves no tracked directory both unvisited and on disk.
C16_CleanupNeverRaisesAndVisitsAll ==
    fm.op \in {"cleanup_temp_files", "cleanup_all"}
    => ( /\ ~fm.raised
         /\ \A i \in 1..Len(fm.asked) : InSeq(fm.asked[i], fm.visited)
         /\ fm.op = "cleanup_all"
              => \A i \in 1..Len(fm.dirs_before) :
                    InSeq(fm.dirs_before[i], fm.visited) \/ ~exists(disk, fm.dirs_before[i]) )

\* a cleanup of two paths whose first removal failed
C16_Witness ==
    /\ fm.op = "cleanup_temp_files"
    /\ Len(fm.asked) = 2
    /\ fm.caught # <<>>
    /\ fm.caught[1] = fm.asked[1]
    /\ fm.visited = fm.asked


\* C12: run_task adds exactly one record, under an identifier that was not a
\* key of the task map, with status pending and result, error, started_at and
\* completed_at null, and changes no other record; it returns with the worker
\* still ahead of its first statement, and from then on the identifier is a
\* key of the map for as long as the task is pending or running.
C12_RunTaskStoresPendingAndReturns ==
    /\ [](\A t \in 1..nextTask :
            wpc[t] # "done" => /\ t \in DOMAIN tasks
                               /\ wpc[t] = "set_running" => tasks[t].status = "pending")
    /\ [][nextTask' # nextTask =>
            /\ nextTask' \notin DOMAIN tasks
            /\ DOMAIN tasks' = DOMAIN tasks \cup {nextTask'}
            /\ tasks'[nextTask'].status = "pending"
            /\ tasks'[nextTask'].result = None
            /\ tasks'[nextTask'].error = None
            /\ tasks'[nextTask'].started_at = NoTime
            /\ tasks'[nextTask'].completed_at = NoTime
            /\ wpc'[nextTask'] = "set_running"
            /\ \A t \in DOMAIN tasks : tasks'[t] = tasks[t]]_vars

\* run_task has returned, the worker has not run a statement yet, and
\* get_task_status has answered 200 with status pending for the new task
C12_Witness ==
    /\ nextTask = 2
    /\ wpc[2] = "set_running"
    /\ tasks[2].status = "pending"
    /\ poll.pc = "respond" /\ poll.resp.code = 200
    /\ poll.resp.task_id = 2 /\ poll.resp.status = "pending"


\* C13: when the operation raises, the worker continues in its handler and
\* ends with status failed, error equal to the exception's text and result
\* null; no step of that worker changes or removes another task's record.
C13_FailureIsRecordedOnItsOwnTask ==
    /\ [](\A t \in TaskIds :
            wval[t].kind = "exc" =>
               /\ wpc[t] \in {"err_status", "err_error", "err_time", "done"}
               /\ t \in DOMAIN tasks =>
                     /\ tasks[t].result = None
                     /\ tasks[t].status # "completed"
                     /\ wpc[t] = "done" => /\ tasks[t].status = "failed"
                                            /\ tasks[t].error = wval[t].v)
    /\ [][\A t \in TaskIds :
            (wval'[t].kind = "exc" /\ wpc'[t] # wpc[t]) =>
               \A u \in DOMAIN tasks \ {t} :
                  u \in DOMAIN tasks' /\ tasks'[u] = tasks[u]]_vars

\* task 1's operation raised and its worker has finished, next to a second
\* task that is still running
C13_Witness ==
    /\ DOMAIN tasks = {1, 2}
    /\ wval[1].kind = "exc" /\ wpc[1] = "done"
    /\ tasks[1].status = "failed" /\ tasks[1].error = "boom" /\ tasks[1].result = None
    /\ tasks[2].status = "running"


\* the tasks of the map that are terminal and older than max_age at time current_time
OldTerminal(current_time, max_age) ==
    {t \in DOMAIN tasks : /\ tasks[t].status \in {"completed", "failed"}
                          /\ tasks[t].completed_at # NoTime
                          /\ current_time - tasks[t].completed_at > max_age}

\* C14: cleanup_completed_tasks(maxAge), started at time now, removes
\* exactly the tasks that are completed or failed with
\* now - completed_at > maxAge: each turn of its deleting loop removes only
\* such tasks, none of them is left when the method returns, every other
\* task stays with all its fields, and no other step of the sweep touches
\* the task map.
C14_SweepRemovesExactlyOldTerminalTasks ==
    [][sweep' # sweep =>
         IF sweep.pc = "delete"
         THEN LET old == OldTerminal(sweep.current_time, sweep.max_age)
              IN /\ DOMAIN tasks' \subseteq DOMAIN tasks
                 /\ (DOMAIN tasks \ DOMAIN tasks') \subseteq old
                 /\ \A t \in DOMAIN tasks' : tasks'[t] = tasks[t]
                 /\ sweep'.pc = "idle" => DOMAIN tasks' \cap old = {}
         ELSE tasks' = tasks]_vars

\* a sweep has removed task 1 and kept task 2, which is terminal and not old
C14_Witness ==
    /\ nextTask = 2 /\ DOMAIN tasks = {2}
    /\ sweep.pc = "idle"
    /\ wpc[1] = "done" /\ wpc[2] = "done"
    /\ tasks[2].status = "completed" /\ tasks[2].completed_at = now


\* C18: a sweep that runs while run_task inserts and workers update records
\* never fails because the task map changed size under its iteration.
C18_SweepSurvivesConcurrentInsert == sweep.raised # "RuntimeError"


\* C15: in the running service a task that is terminal and older than the
\* maximum age is eventually removed from the task map.
C15_OldTerminalTasksAreEventuallySwept ==
    \A t \in TaskIds, max_age \in MaxAges :
        (t \in OldTerminal(now, max_age)) ~> (t \notin DOMAIN tasks)


\* C17: when transcribe_from_source has returned, the handle its source
\* opened in get_audio_file is closed, whatever the outcome.
C17_SourceHandleIsClosedAtReturn ==
    \A r \in Procs : rq[r].pc = "done" => rq[r].handle # "open"


\* C19: when a single transcribe_from_source call that got as far as the
\* return_timestamps override has finished, by whichever path, the
\* transcriber's flag has the value it had before the call.
C19_FlagIsRestoredOnEveryPath ==
    (rq[1].pc = "done" /\ rq[1].staged # NoPath /\ rq[2].pc = "idle")
        => return_timestamps = rq[1].original


\* C20: after set(k, v) at time T that no set, delete or clear of k followed,
\* get(k) at time t returns v when t < T + ttl, and returns None and leaves
\* k out of the map when t >= T + ttl.
C20_GetServesUntilTtlThenExpires ==
    (ccall.op = "get" /\ ccall.key \in DOMAIN written)
        => LET w == written[ccall.key]
           IN /\ ccall.at < w.timestamp + ttl => ccall.result = w.value
              /\ ccall.at >= w.timestamp + ttl
                    => ccall.result = None /\ ccall.key \notin DOMAIN cache

\* a get at exactly T + ttl, with ttl > 0, found the entry expired and removed it
C20_Witness ==
    /\ ccall.op = "get" /\ ccall.key \in DOMAIN written
    /\ ttl > 0
    /\ ccall.at = written[ccall.key].timestamp + ttl
    /\ ccall.result = None
    /\ ccall.key \notin DOMAIN cache


\* C21: convert_to_wav on a .wav input that soxi reports at the configured
\* rate, and speed_up_audio with audio_speed_factor 1.0, return their input
\* path, create and track nothing, cannot fail, and process_audio does not
\* put the returned path on its cleanup list.
C21_PassthroughStagesMakeNothing ==
    [][\A r \in Procs :
         ( \/ /\ rq[r].pc = "convert" /\ rq'[r].pc # "convert"
               /\ EndsWith(Lower(rq[r].cur.name), ExtWav)
               /\ rq'[r].rate_matches
            \/ /\ rq[r].pc = "speed_up" /\ rq'[r].pc # "speed_up"
               /\ config.audio_speed_factor = "1.0" )
         => /\ rq'[r].pc = (IF rq[r].pc = "convert" THEN "normalize" ELSE "add_silence")
            /\ rq'[r].cur = rq[r].cur
            /\ rq'[r].pf_files = rq[r].pf_files
            /\ disk' = disk /\ temp_files' = temp_files /\ temp_dirs' = temp_dirs]_vars

\* both stages passed their input through: before add_silence the cleanup
\* list of process_audio holds the normalized file only
C21_Witness ==
    /\ rq[1].pc = "add_silence"
    /\ rq[1].rate_matches
    /\ config.audio_speed_factor = "1.0"
    /\ Len(rq[1].pf_files) = 1
    /\ rq[1].cur = rq[1].pf_files[1]
    /\ EndsWith(rq[1].cur.name, SuffixNormalized)


\* the calls process_file makes when nothing fails, in their order
PipelineOrder == <<"convert", "normalize", "speed_up", "add_silence", "infer">>

\* C22: the calls of one process_file run are convert_to_wav, normalize_audio,
\* speed_up_audio, add_silence and then the inference, in that order, each
\* given the path the call before it returned (the first one the staged
\* file); a call that raised is the last call of the run, and process_file
\* then raises to its caller.
C22_StagesRunInOrderAndStopAtFailure ==
    \A r \in Procs :
        LET calls == rq[r].calls
        IN /\ Len(calls) <= Len(PipelineOrder)
           /\ \A i \in 1..Len(calls) :
                 /\ calls[i].stage = PipelineOrder[i]
                 /\ calls[i].input = (IF i = 1 THEN rq[r].staged ELSE calls[i - 1].output)
                 /\ calls[i].raised => /\ i = Len(calls)
                                       /\ rq[r].pf = "raised"
                                       /\ rq[r].result = "none"

\* normalize_audio failed after convert_to_wav wrote a new file: two calls
\* were made, the second on the first one's output, and process_file raised
C22_Witness ==
    /\ Len(rq[1].calls) = 2
    /\ rq[1].calls[2].stage = "normalize" /\ rq[1].calls[2].raised
    /\ rq[1].calls[1].output # rq[1].staged
    /\ rq[1].calls[2].input = rq[1].calls[1].output
    /\ rq[1].pf = "raised" /\ rq[1].code = 500


\* C23: a finished transcribe_from_source call has returned 400, 500 or 200:
\* 400 exactly when the fetch failed or the validator rejected the file, in
\* which case nothing was staged; 200 exactly when process_file returned;
\* 500 in the remaining cases, the failed duration probe and the failed
\* pipeline or inference; after a 400 and after a 500 that came before
\* process_file no stage and no inference was called.
C23_StatusFollowsTheFailingStep ==
    (rq[1].pc = "done" /\ rq[2].pc = "idle")
        => /\ rq[1].shape # "exception"
           /\ rq[1].code \in {200, 400, 500}
           /\ rq[1].code = 400 <=> rq[1].staged = NoPath
           /\ rq[1].code = 200 <=> rq[1].pf = "returned"
           /\ (rq[1].code = 400 \/ (rq[1].code = 500 /\ rq[1].pf = "none"))
                 => rq[1].calls = <<>>


\* C24: every 200 response of transcribe_from_source holds processing_time,
\* response_size_bytes, duration_seconds, model and text, and it holds
\* segments exactly when the request's effective return_timestamps flag is
\* true: the request's parameter if one was given, else the configured
\* default.
C24_EffectiveFlag(r) ==
    IF rq[r].param.kind = "absent" THEN config.return_timestamps
    ELSE IF rq[r].param.kind = "bool" THEN rq[r].param.flag
    ELSE rq[r].param.text \in {<<"T">>}

C24_OkResponseHasItsKeys ==
    \A r \in Procs :
        rq[r].code = 200
        => ( /\ {"processing_time", "response_size_bytes", "duration_seconds",
                 "model", "text"} \subseteq rq[r].body
             /\ ("segments" \in rq[r].body <=> C24_EffectiveFlag(r)) )

C24_Witness ==
    \E r \in Procs :
        /\ rq[r].pc = "done" /\ rq[r].code = 200
        /\ rq[r].param.kind = "absent" /\ config.return_timestamps
        /\ "segments" \in rq[r].body


\* C25: for a request to /v1/audio/transcriptions/async, the staged file
\* whose path is handed to the task is on disk whenever the task's operation
\* reads it: from run_task until process_file has returned or raised, the
\* file is not released.
C25_StagedFileOutlivesTheTask ==
    \A t \in DOMAIN tasks :
        (tasks[t].status \in {"pending", "running"} /\ rq[Op].pf \in {"none", "running"})
        => exists(disk, rq[Op].staged)


\* C26: in every reachable state, the states between the worker's single
\* field writes included, a completed or failed task has a completed_at
\* and a running task has a started_at, so that a sweep reading a terminal
\* task can compute its age.
C26_StatusNeverAheadOfItsTimestamp ==
    \A t \in DOMAIN tasks :
        /\ tasks[t].status \in {"completed", "failed"} => tasks[t].completed_at # NoTime
        /\ tasks[t].status = "running" => tasks[t].started_at # NoTime


\* C27: under fair scheduling of the worker threads, every task submitted
\* through run_task whose operation ends, by returning or by raising,
\* eventually reads completed or failed.
C27_EveryTaskEventuallyEnds ==
    \A t \in TaskIds :
        (t \in DOMAIN tasks)
        ~> (t \in DOMAIN tasks /\ tasks[t].status \in {"completed", "failed"})

C27_Witness ==
    \E t, u \in DOMAIN tasks :
        /\ wpc[t] = "done" /\ tasks[t].status = "completed"
        /\ wpc[u] = "done" /\ tasks[u].status = "failed"


\* C28: validate_file runs the size check, then the extension check, then
\* the content-type check, and stops at the first check that fails: a file
\* that is oversize and has a disallowed extension is rejected with the
\* size error, and the content type is not sniffed after an earlier check
\* has failed.
C28_ChecksRunInOrderAndStopAtFirstFailure ==
    vcall.called
    => LET oversize == vcall.file.len > MaxSizeBytes
           bad_ext == validate_file_extension(vcall.filename) # None
       IN /\ oversize => (~vcall.ok /\ vcall.error = "size" /\ vcall.ran = <<"size">>)
          /\ (~oversize /\ bad_ext)
               => ( /\ ~vcall.ok /\ vcall.error = "extension"
                    /\ vcall.ran = <<"size", "extension">> )
          /\ (~oversize /\ ~bad_ext) => vcall.ran = <<"size", "extension", "mime">>

C28_Witness ==
    /\ vcall.called
    /\ vcall.file.len > MaxSizeBytes
    /\ validate_file_extension(vcall.filename) # None
    /\ vcall.error = "size"
    /\ vcall.ran = <<"size">>

\* C29: when the content-type sniffer itself raises on a file that passed
\* the size and extension checks, validate_file returns True and the stream
\* is back at the position it had before the sniff.
C29_SnifferFailureIsNotAValidationFailure ==
    ( /\ vcall.called
      /\ vcall.file.len <= MaxSizeBytes
      /\ validate_file_extension(vcall.filename) = None
      /\ vcall.sniff = "raise" )
    => (vcall.ok /\ vcall.pos = vcall.file.pos)

C29_Witness ==
    /\ vcall.called
    /\ vcall.file.kind = "upload"
    /\ vcall.file.pos = 512 /\ vcall.file.len = 2048
    /\ validate_file_extension(vcall.filename) = None
    /\ vcall.sniff = "raise"
    /\ vcall.ok /\ vcall.pos = 512

\* C30: AudioSource.check_file_size and FileValidator.validate_file leave
\* the stream at the position it had before the call, for every starting
\* position and whether the check passes or fails.
C30_SizeCheckLeavesThePosition ==
    ( /\ scall.called
      /\ scall.src.kind = "upload" /\ scall.src.has_part /\ scall.src.filename # <<>> )
    => ( /\ check_file_size([kind |-> "upload", len |-> scall.src.len,
                             pos |-> scall.src.pos]).file.pos = scall.src.pos
         /\ scall.res.file # NoStream => scall.res.file.pos = scall.src.pos )


\* C31: after transcribe_from_source has returned with a status produced
\* after staging (500 from the duration probe, 500 from the pipeline or the
\* inference, or 200), the staged file and its directory are neither on
\* disk nor tracked by the temp file manager.
C31_StagedFileIsReleasedWithTheStatus ==
    \A r \in Procs :
        ( /\ rq[r].pc = "done"
          /\ rq[r].staged # NoPath
          /\ rq[r].shape # "exception"
          /\ rq[r].code \in {200, 500} )
        => ( /\ ~exists(disk, rq[r].staged)
             /\ ~exists(disk, dirname(rq[r].staged))
             /\ ~InSeq(rq[r].staged, temp_files)
             /\ ~InSeq(dirname(rq[r].staged), temp_dirs) )

C31_Witness ==
    \E r \in Procs :
        /\ rq[r].pc = "done" /\ rq[r].code = 500 /\ rq[r].shape = "error"
        /\ rq[r].staged # NoPath /\ rq[r].pf = "none"
        /\ ~exists(disk, rq[r].staged)


\* C32: in transcribe_from_source with a URL or base64 source, the source's
\* scratch resources are released (handle closed, cleanup() called) only
\* after the source's bytes have been copied into the staged file, and
\* before the processing pipeline and the inference start.
C32_Released(r) ==
    /\ rq[r].handle = "closed"
    /\ ~exists(disk, rq[r].temp_file_path)
    /\ ~exists(disk, rq[r].temp_dir)

C32_ScratchIsReleasedBetweenStagingAndPipeline ==
    /\ [][\A r \in Procs :
            ( /\ rq[r].src.kind \in {"url", "base64"}
              /\ \/ rq[r].handle = "open" /\ rq'[r].handle = "closed"
                 \/ exists(disk, rq[r].temp_file_path) /\ ~exists(disk', rq[r].temp_file_path)
                 \/ exists(disk, rq[r].temp_dir) /\ ~exists(disk', rq[r].temp_dir) )
            => ( /\ exists(disk, rq[r].staged)
                 /\ rq[r].file.pos = 0
                 /\ rq[r].pf = "none" /\ rq[r].calls = <<>> )]_vars
    /\ [](\A r \in Procs :
            (rq[r].src.kind \in {"url", "base64"} /\ rq[r].pf # "none")
            => C32_Released(r))

C32_Witness ==
    \E r \in Procs :
        /\ rq[r].src.kind = "url"
        /\ rq[r].pc = "convert" /\ rq[r].calls = <<>>
        /\ exists(disk, rq[r].staged)
        /\ C32_Released(r)


\* C33: when a URLSource download or a Base64Source decode or write fails
\* after the scratch directory was made, get_audio_file returns (None, None,
\* error message) and the scratch file and directory it made are gone.
C33_FailedFetchLeavesNoScratch ==
    ( /\ scall.called
      /\ scall.src.kind \in {"url", "base64"}
      /\ scall.res.temp_dir # NoPath
      /\ scall.src.fault # "none" )
    => ( /\ scall.res.file = NoStream
         /\ scall.res.filename = <<>>
         /\ scall.res.error = IF scall.src.kind = "url" THEN "retrieve" ELSE "decode"
         /\ ~exists(scall.res.disk, scall.res.temp_file_path)
         /\ ~exists(scall.res.disk, scall.res.temp_dir) )

C33_Witness ==
    /\ scall.called
    /\ scall.src.kind = "url" /\ scall.src.fault = "write"
    /\ scall.res.temp_dir # NoPath
    /\ scall.res.error = "retrieve"
    /\ scall.res.disk = {}


\* C34: after cleanup_all returns, temp_files and temp_dirs are both empty
\* and, when no removal call of cleanup_all fails, no file or directory made
\* by create_temp_file remains on disk, directories whose file was never
\* written included.
C34_CleanupAllLeavesNothing ==
    fm.op = "cleanup_all"
    => ( /\ temp_files = <<>>
         /\ temp_dirs = <<>>
         /\ fm.caught = <<>>
              => ( /\ \A f \in MadeFiles : ~exists(disk, f)
                   /\ \A d \in MadeDirs : ~exists(disk, d) ) )


\* C35: cleanup_temp_files(paths) with an explicit list removes each listed
\* file that exists, removes and deregisters its directory when that is
\* then empty, deregisters the listed paths, and leaves every other tracked
\* file and directory on disk and in the tracked lists as they were.  What
\* the operating system refuses to remove stays, and nothing else does.
C35_Listed == {fm.asked[i] : i \in 1..Len(fm.asked)}
C35_ListedOnDisk == {f \in C35_Listed : exists(fm.disk_before, f)}
C35_IsListed(f) == f \in C35_Listed
C35_WasNotRemoved(d) == ~(exists(fm.disk_before, d) /\ ~exists(disk, d))

C35_ListedCleanupTouchesOnlyTheListed ==
    fm.op = "cleanup_temp_files"
    => ( /\ temp_files = SelectSeq(fm.files_before, LAMBDA f : ~C35_IsListed(f))
         /\ temp_dirs = SelectSeq(fm.dirs_before, C35_WasNotRemoved)
         /\ disk \subseteq fm.disk_before
         /\ fm.disk_before \ disk
              \subseteq C35_ListedOnDisk \cup {dirname(f) : f \in C35_ListedOnDisk}
         /\ fm.caught = <<>>
              => disk = fm.disk_before
                          \ (C35_ListedOnDisk \cup {dirname(f) : f \in C35_ListedOnDisk}) )

C35_Witness ==
    /\ fm.op = "cleanup_temp_files"
    /\ fm.made = 2
    /\ fm.asked = <<MadeFile(1)>>
    /\ fm.caught = <<>>
    /\ fm.disk_before = {MadeDir(1), MadeFile(1), MadeDir(2), MadeFile(2)}
    /\ disk = {MadeDir(2), MadeFile(2)}
    /\ temp_files = <<MadeFile(2)>>
    /\ temp_dirs = <<MadeDir(2)>>


\* C36: when cleanup_all runs concurrently with create_temp_file calls of
\* requests in flight, no path ends up deregistered from temp_files or
\* temp_dirs while its file or directory is still on disk.
C36_NothingOnDiskEndsUpUntracked ==
    (fm.cr = "idle" /\ fm.cl.pc = "idle")
    => ( /\ \A f \in MadeFiles : exists(disk, f) => InSeq(f, temp_files)
         /\ \A d \in MadeDirs : exists(disk, d) => InSeq(d, temp_dirs) )


\* C37: SimpleCache.get, set, delete and clear called concurrently from
\* several threads on the same key never raise: each call returns a value
\* or None (delete: True or False), without a missing-key error.
C37_ConcurrentCacheCallsNeverRaise ==
    \A t \in Threads : ccall[t].raised = None


\* C38: process_audio never puts its input_path into the list of files it
\* returns for deletion or releases itself on failure, whichever stages
\* pass their input through and whichever stage fails, so the file the
\* caller gave to process_file still exists when process_file has returned
\* or raised.
C38_InputFileOutlivesThePipeline ==
    \A r \in Procs :
        rq[r].pf # "none"
        => ( /\ ~InSeq(rq[r].staged, rq[r].pf_files)
             /\ rq[r].pc # "done" => exists(disk, rq[r].staged) )

C38_Witness ==
    \E r \in Procs :
        /\ rq[r].pf = "raised" /\ rq[r].pc = "restore"
        /\ Len(rq[r].calls) = 2
        /\ rq[r].calls[1].stage = "convert"
        /\ rq[r].calls[1].output = rq[r].staged
        /\ rq[r].calls[2].stage = "normalize" /\ rq[r].calls[2].raised
        /\ exists(disk, rq[r].staged)


\* C39: a function wrapped by cache_result is invoked at most once per cache
\* key while that key's entry is within its TTL, whatever the function
\* returned, None included: a call that finds the key's entry within its
\* TTL does not invoke the function.
C39_FreshEntryIsNotRecomputed ==
    \A t \in Threads :
        (ccall[t].op = "cache_result" /\ ccall[t].fresh) => ~ccall[t].invoked

=============================================================================
